---- MODULE Spec2Model ----
(***************************************************************************)
(* Model of the race control loop (src/src/race.rs), the configuration     *)
(* store (src/src/configuration.rs), the vision fusion engine              *)
(* (src/src/vision.rs), the laser reads (src/src/lasers.rs), the Signals   *)
(* of the sensor tasks and the buttons, and the screens with their         *)
(* dispatcher (src/src/screens) of the t-pico-c3-embassy firmware.         *)
(*                                                                         *)
(* Durations are counted in microseconds (embassy_time ticks at 1 MHz).    *)
(* Option<T> is a sequence: <<>> is None and <<x>> is Some(x).             *)
(***************************************************************************)
EXTENDS Integers, Sequences, FiniteSets, TLC

\* ------------------------------------------------------------------------
\* Bounds of the model
\* ------------------------------------------------------------------------

\* Number of loop iterations of one race session that are explored.
MaxTicks == 3

\* Number of loop iterations explored after the configuration was tuned.
MaxTunedTicks == 2

\* Number of steps a Vision entry is tuned away from its default.
MaxVisionSteps == 2

\* Number of loop iterations explored when the Signals are modelled.
MaxMailTicks == 3

\* Number of values each sensor task signals.
MaxPublished == 2

\* Number of bytes imu_task reads from the UART.
MaxBytes == 20

\* Number of configuration entries that differ from their default.
MaxEdited == 1

\* Number of slots of the ring of trace events that is explored (TRACE_EVENTS
\* is 3000 in trace.rs).
TRACE_EVENTS == 3

\* Number of events pushed into the ring after it was empty.
MaxPushed == 4

\* Number of laser batches published while the screens run.
MaxBatches == 1

\* Number of editing commands of the Config screen between the defaults and a
\* configuration.
MaxEditCommands == 1
\* Angle::from is called on the multiples of 15 from -15 * MaxAngleInput to
\* 15 * MaxAngleInput: two whole turns each way
MaxAngleInput == 48
\* next() and prev() are applied this many times in a row from start()
MaxWalk == 60
\* inc or dec is repeated at most this many times on one entry
MaxSessionEdits == 36
\* turn_speed is called on the steers from -MaxSteerInput to MaxSteerInput
MaxSteerInput == 36
\* climb_power_boost is called on the pitches from -2 to MaxPitchInput
MaxPitchInput == 26

\* ------------------------------------------------------------------------
\* Rust integer arithmetic
\* ------------------------------------------------------------------------

Abs(x) == IF x < 0 THEN -x ELSE x

Min2(a, b) == IF a <= b THEN a ELSE b

Max2(a, b) == IF a >= b THEN a ELSE b

\* Rust's `/` on signed integers truncates toward zero.
TruncDiv(a, b) ==
    IF (a >= 0) = (b > 0) THEN Abs(a) \div Abs(b) ELSE -(Abs(a) \div Abs(b))

\* `x as i16`
AsI16(x) == ((x + 32768) % 65536) - 32768

\* `x as u16`
AsU16(x) == x % 65536

None == <<>>

Some(x) == <<x>>

\* Duration::from_millis
FromMillis(ms) == ms * 1000

\* Duration::as_millis
AsMillis(d) == d \div 1000

\* ------------------------------------------------------------------------
\* Angle (race.rs)
\* ------------------------------------------------------------------------

\* Mutant of normalize: one correction of a turn instead of the two loops.
NormalizeOnce(v) == IF v > 180 THEN v - 360 ELSE IF v < -180 THEN v + 360 ELSE v

RECURSIVE Normalize(_)
Normalize(v) ==
    IF v > 180 THEN Normalize(v - 360)
    ELSE IF v < -180 THEN Normalize(v + 360)
    ELSE v

AngleFrom(v) == Normalize(v)

FromImuValue(imu_value) == Max2(Min2(TruncDiv(imu_value, 100), 180), -180)

AngleAdd(a, b) == AngleFrom(a + b)

AngleSub(a, b) == AngleFrom(a - b)

AngleNeg(a) == -a

AngleAbs(a) == Abs(a)

ZERO == 0
L45 == -45
R45 == 45
R100 == 100
SLL == -60
SL == -30
SC == 0
SR == 30
SRR == 60
SHALF == 15
TILT_ALERT == 45
MAX_STEER == 35
MIN_STEER == -35

\* Mutant of the clamp: the angle is passed on as it is.
ClampSteerNone(a) == a

\* steer.min(Angle::MAX_STEER).max(Angle::MIN_STEER)
ClampSteer(a) == Max2(Min2(a, MAX_STEER), MIN_STEER)

\* ------------------------------------------------------------------------
\* Configuration store (configuration.rs)
\* ------------------------------------------------------------------------

Entries ==
    << "MaxSpeed", "MinSpeed", "SteerBias", "SafeAngle", "BackSpeed", "BackTime",
       "SprintSpeed", "SprintTime", "AlertDistanceCenter", "AlertDistanceSide30",
       "AlertDistanceSide60", "BackDistanceCenter", "BackDistanceSide30",
       "BackDistanceSide60", "SlopeDistanceDelta", "ClimbingSpeed", "ClimbingAngle",
       "ClimbingIgnore", "StillnessDelta", "StillnessTime", "UseStillness",
       "InversionTime", "ClimbDirection", "UseClimbDirection", "UseColorInversion" >>

RealEntries == { Entries[i] : i \in 1..Len(Entries) }

EntryMin ==
    [ MaxSpeed |-> 2000, MinSpeed |-> 1000, SteerBias |-> 0, SafeAngle |-> 0,
      BackSpeed |-> 2000, BackTime |-> 100, SprintSpeed |-> 2000, SprintTime |-> 0,
      AlertDistanceCenter |-> 200, AlertDistanceSide30 |-> 200,
      AlertDistanceSide60 |-> 200, BackDistanceCenter |-> 25,
      BackDistanceSide30 |-> 25, BackDistanceSide60 |-> 25,
      SlopeDistanceDelta |-> 50, ClimbingSpeed |-> 2000, ClimbingAngle |-> 5,
      ClimbingIgnore |-> 0, StillnessDelta |-> 0, StillnessTime |-> 0,
      UseStillness |-> 0, InversionTime |-> 100, ClimbDirection |-> -180,
      UseClimbDirection |-> 0, UseColorInversion |-> 0 ]

EntryMax ==
    [ MaxSpeed |-> 10000, MinSpeed |-> 9000, SteerBias |-> 20, SafeAngle |-> 35,
      BackSpeed |-> 10000, BackTime |-> 1000, SprintSpeed |-> 10000,
      SprintTime |-> 3000, AlertDistanceCenter |-> 500, AlertDistanceSide30 |-> 500,
      AlertDistanceSide60 |-> 500, BackDistanceCenter |-> 400,
      BackDistanceSide30 |-> 400, BackDistanceSide60 |-> 400,
      SlopeDistanceDelta |-> 300, ClimbingSpeed |-> 10000, ClimbingAngle |-> 25,
      ClimbingIgnore |-> 10, StillnessDelta |-> 100, StillnessTime |-> 100,
      UseStillness |-> 1, InversionTime |-> 1000, ClimbDirection |-> 180,
      UseClimbDirection |-> 1, UseColorInversion |-> 1 ]

EntryStep ==
    [ MaxSpeed |-> 500, MinSpeed |-> 500, SteerBias |-> 1, SafeAngle |-> 1,
      BackSpeed |-> 500, BackTime |-> 10, SprintSpeed |-> 500, SprintTime |-> 10,
      AlertDistanceCenter |-> 25, AlertDistanceSide30 |-> 25,
      AlertDistanceSide60 |-> 25, BackDistanceCenter |-> 25,
      BackDistanceSide30 |-> 25, BackDistanceSide60 |-> 25,
      SlopeDistanceDelta |-> 10, ClimbingSpeed |-> 500, ClimbingAngle |-> 1,
      ClimbingIgnore |-> 1, StillnessDelta |-> 1, StillnessTime |-> 1,
      UseStillness |-> 1, InversionTime |-> 10, ClimbDirection |-> 90,
      UseClimbDirection |-> 1, UseColorInversion |-> 1 ]

\* The struct field that get/set match to each entry.
FieldOf ==
    [ MaxSpeed |-> "max_speed", MinSpeed |-> "min_speed", SteerBias |-> "steer_bias",
      SafeAngle |-> "safe_angle", BackSpeed |-> "back_speed", BackTime |-> "back_time",
      SprintSpeed |-> "sprint_speed", SprintTime |-> "sprint_time",
      AlertDistanceCenter |-> "alert_distance_center",
      AlertDistanceSide30 |-> "alert_distance_side_30",
      AlertDistanceSide60 |-> "alert_distance_side_60",
      BackDistanceCenter |-> "back_distance_center",
      BackDistanceSide30 |-> "back_distance_side_30",
      BackDistanceSide60 |-> "back_distance_side_60",
      SlopeDistanceDelta |-> "slope_distance_delta",
      ClimbingSpeed |-> "climbing_speed", ClimbingAngle |-> "climbing_angle",
      ClimbingIgnore |-> "climbing_ignore", StillnessDelta |-> "stillness_delta",
      StillnessTime |-> "stillness_time", UseStillness |-> "use_stillness",
      InversionTime |-> "inversion_time", ClimbDirection |-> "climb_direction",
      UseClimbDirection |-> "use_climb_direction",
      UseColorInversion |-> "use_color_inversion" ]

RaceConfigInit ==
    [ max_speed |-> 3900, min_speed |-> 3600, steer_bias |-> 0, safe_angle |-> 10,
      back_speed |-> 5000, back_time |-> 100, sprint_speed |-> 6000,
      sprint_time |-> 100, alert_distance_center |-> 380,
      alert_distance_side_30 |-> 190, alert_distance_side_60 |-> 150,
      back_distance_center |-> 80, back_distance_side_30 |-> 60,
      back_distance_side_60 |-> 50, slope_distance_delta |-> 150,
      climbing_speed |-> 8000, climbing_angle |-> 15, climbing_ignore |-> 3,
      stillness_delta |-> 0, stillness_time |-> 500, use_stillness |-> 1,
      inversion_time |-> 750, climb_direction |-> 0, use_climb_direction |-> 1,
      use_color_inversion |-> 1 ]

ConfigGet(cfg, entry) == cfg[FieldOf[entry]]

ConfigSet(cfg, entry, value) == [cfg EXCEPT ![FieldOf[entry]] = value]

ConfigInc(cfg, entry) ==
    ConfigSet(cfg, entry,
              Min2(AsI16(ConfigGet(cfg, entry) + EntryStep[entry]), EntryMax[entry]))

ConfigDec(cfg, entry) ==
    ConfigSet(cfg, entry,
              Max2(AsI16(ConfigGet(cfg, entry) - EntryStep[entry]), EntryMin[entry]))

\* RaceConfigEntry as usize: the place of the entry in the enum, End the last
EntryIndex(e) ==
    IF e = "End" THEN Len(Entries)
    ELSE (CHOOSE i \in 1..Len(Entries) : Entries[i] = e) - 1

\* Mutant of From<usize>: an index that is not below End gives the last entry.
EntryFromSaturating(value) == IF value < EntryIndex("End") THEN Entries[value + 1] ELSE Entries[Len(Entries)]

\* From<usize> for RaceConfigEntry: an index that is not below End gives start
EntryFrom(value) == IF value < EntryIndex("End") THEN Entries[value + 1] ELSE Entries[1]

\* RaceConfigEntry::prev
EntryPrev(e) ==
    LET index == IF e # Entries[1] THEN EntryIndex(e) ELSE EntryIndex("End")
    IN  EntryFrom(index - 1)

\* RaceConfigEntry::next
EntryNext(e) ==
    LET next == EntryFrom(EntryIndex(e) + 1)
    IN  IF next = "End" THEN Entries[1] ELSE next

\* The divisor of turn_speed: Angle::MAX_STEER.value() - safe_angle.
TurnSpeedDivisor(cfg) == MAX_STEER - cfg.safe_angle

\* Mutant of turn_speed: the steer is not clamped to MAX_STEER.
TurnSpeedUnclamped(cfg, steer) ==
    LET safe_angle == cfg.safe_angle
        speed_range == AsI16(cfg.max_speed - cfg.min_speed)
        steer_delta == IF steer < -safe_angle THEN -(steer + safe_angle)
                       ELSE IF steer > safe_angle THEN steer - safe_angle
                       ELSE 0
        speed_delta == AsI16(TruncDiv(steer_delta * speed_range, TurnSpeedDivisor(cfg)))
    IN  AsI16(cfg.max_speed - speed_delta)

\* turn_speed; the division is executed for every steer.
TurnSpeed(cfg, steer) ==
    LET safe_angle == cfg.safe_angle
        s == Min2(Max2(steer, -MAX_STEER), MAX_STEER)
        speed_range == AsI16(cfg.max_speed - cfg.min_speed)
        steer_range == TurnSpeedDivisor(cfg)
        steer_delta == IF s < -safe_angle THEN -(s + safe_angle)
                       ELSE IF s > safe_angle THEN s - safe_angle
                       ELSE 0
        speed_delta == AsI16(TruncDiv(steer_delta * speed_range, steer_range))
    IN  AsI16(cfg.max_speed - speed_delta)

\* The divisor of climb_power_boost: climbing_angle - climbing_ignore.
ClimbBoostDivisor(cfg) == AsI16(cfg.climbing_angle - cfg.climbing_ignore)

\* climb_power_boost; the division is executed only when pitch > 0.
ClimbPowerBoost(cfg, pitch) ==
    IF pitch <= ZERO THEN 0
    ELSE LET boost_range == AsI16(cfg.climbing_speed - cfg.max_speed)
             pitch_range == ClimbBoostDivisor(cfg)
             pitch_delta == Max2(Min2(pitch - cfg.climbing_ignore, pitch_range), 0)
             boost == TruncDiv(pitch_delta * boost_range, pitch_range)
         IN  AsI16(Min2(boost, boost_range))

\* RaceConfig::detect_stillness, over Durations in microseconds
DetectStillness(cfg, stillness_time) ==
    IF stillness_time = None THEN FALSE
    ELSE stillness_time[1] >= FromMillis(cfg.stillness_time)

DetectClimb(cfg, pitch) ==
    pitch >= AngleFrom(TruncDiv(cfg.climbing_angle * 2, 3))

ClimbDirection(cfg) == AngleFrom(cfg.climb_direction)

UseClimbDirection(cfg) == cfg.use_climb_direction # 0

\* ------------------------------------------------------------------------
\* Vision fusion engine (vision.rs)
\* ------------------------------------------------------------------------

NUM_LASER_POSITIONS == 5
LASER_OVERFLOW == 1200
LILL == 0
LIL == 1
LIC == 2
LIR == 3
LIRR == 4
RAW_LASERS_COUNT == 8

LaserIndexes == 0..(NUM_LASER_POSITIONS - 1)

\* Mutant of physical_index: the lower sensor of the right Side30 position is
\* read on the channel of its upper sensor.
PhysicalIndexSharedSide30(position, sign, upper) ==
    IF upper
    THEN CASE position = "Center" -> 2
           [] position = "Side30" -> (IF sign > 0 THEN 3 ELSE 1)
           [] position = "Side60" -> (IF sign > 0 THEN 5 ELSE 4)
    ELSE CASE position = "Center" -> 7
           [] position = "Side30" -> (IF sign > 0 THEN 3 ELSE 6)
           [] position = "Side60" -> (IF sign > 0 THEN 5 ELSE 4)

\* LaserSidePosition::physical_index
PhysicalIndex(position, sign, upper) ==
    IF upper
    THEN CASE position = "Center" -> 2
           [] position = "Side30" -> (IF sign > 0 THEN 3 ELSE 1)
           [] position = "Side60" -> (IF sign > 0 THEN 5 ELSE 4)
    ELSE CASE position = "Center" -> 7
           [] position = "Side30" -> (IF sign > 0 THEN 0 ELSE 6)
           [] position = "Side60" -> (IF sign > 0 THEN 5 ELSE 4)

\* RaceConfig::alert_distance
AlertDistance(cfg, position) ==
    CASE position = "Center" -> AsU16(cfg.alert_distance_center)
      [] position = "Side30" -> AsU16(cfg.alert_distance_side_30)
      [] position = "Side60" -> AsU16(cfg.alert_distance_side_60)

\* RaceConfig::back_distance
BackDistance(cfg, position) ==
    CASE position = "Center" -> AsU16(cfg.back_distance_center)
      [] position = "Side30" -> AsU16(cfg.back_distance_side_30)
      [] position = "Side60" -> AsU16(cfg.back_distance_side_60)

\* LaserStatus::from_value
LaserStatusFromValue(value, position, cfg) ==
    IF value >= LASER_OVERFLOW THEN "Overflow"
    ELSE IF value > AlertDistance(cfg, position) THEN "Regular"
    ELSE IF value > BackDistance(cfg, position) THEN "Alert"
    ELSE "Back"

\* LaserStatus::is_ok
IsOk(status) == status \in {"Regular", "Overflow"}

\* LaserData::new
LaserDataNew(sign, position) ==
    [ upper |-> LASER_OVERFLOW, lower |-> LASER_OVERFLOW, sign |-> sign,
      position |-> position, status |-> "Overflow", slope |-> FALSE ]

\* LaserData::value
LaserValue(l) == IF l.slope THEN LASER_OVERFLOW ELSE Min2(l.lower, l.upper)

\* Mutant of LaserData::update: the status is the classification of the value
\* before the update.
LaserDataUpdateStaleStatus(l, raw_readings, cfg) ==
    LET lower == raw_readings[PhysicalIndex(l.position, l.sign, FALSE)]
        upper == raw_readings[PhysicalIndex(l.position, l.sign, TRUE)]
        slope_delta == AsU16(cfg.slope_distance_delta)
        slope == /\ upper <= AsU16(lower + slope_delta)
                 /\ upper >= AsU16(lower + TruncDiv(slope_delta, 2))
        updated == [l EXCEPT !.lower = lower, !.upper = upper, !.slope = slope]
    IN  [updated EXCEPT !.status =
            IF slope THEN "Overflow"
            ELSE LaserStatusFromValue(LaserValue(l), l.position, cfg)]

\* LaserData::update
LaserDataUpdate(l, raw_readings, cfg) ==
    LET lower == raw_readings[PhysicalIndex(l.position, l.sign, FALSE)]
        upper == raw_readings[PhysicalIndex(l.position, l.sign, TRUE)]
        slope_delta == AsU16(cfg.slope_distance_delta)
        slope == /\ upper <= AsU16(lower + slope_delta)
                 /\ upper >= AsU16(lower + TruncDiv(slope_delta, 2))
        updated == [l EXCEPT !.lower = lower, !.upper = upper, !.slope = slope]
    IN  [updated EXCEPT !.status =
            IF slope THEN "Overflow"
            ELSE LaserStatusFromValue(LaserValue(updated), l.position, cfg)]

\* Vision::new
VisionNew ==
    [ i \in LaserIndexes |->
        CASE i = 0 -> LaserDataNew(-1, "Side60")
          [] i = 1 -> LaserDataNew(-1, "Side30")
          [] i = 2 -> LaserDataNew(0, "Center")
          [] i = 3 -> LaserDataNew(1, "Side30")
          [] i = 4 -> LaserDataNew(1, "Side60") ]

\* Vision::update
VisionUpdate(lasers, raw_readings, cfg) ==
    [ i \in LaserIndexes |-> LaserDataUpdate(lasers[i], raw_readings, cfg) ]

RECURSIVE SeqSum(_)
SeqSum(s) == IF s = <<>> THEN 0 ELSE Head(s) + SeqSum(Tail(s))

\* weighted_average: (weighted average * sum, sum of the values)
WeightedAverage(values) ==
    LET N == Len(values)
        sum == SeqSum(values)
        center_double == N - 1
        average == SeqSum([ k \in 1..N |-> values[k] * ((k - 1) * 2 - center_double) ])
    IN  IF N < 1 THEN <<0, 1>>
        ELSE IF N < 2 THEN <<0, values[1]>>
        ELSE IF sum = 0 THEN <<0, 1>>
        ELSE <<TruncDiv(average, center_double), sum>>

\* interpolate
Interpolate(weights, from, to) ==
    LET wa == WeightedAverage(weights)
        weight == wa[1]
        sum == wa[2]
        middle2 == from + to
        side2 == to - from
        normalized_side2 == TruncDiv(weight * side2, sum)
        normalized2 == middle2 + normalized_side2
        normalized == TruncDiv(normalized2, 2)
    IN  AngleFrom(normalized)

\* Vision::find_best_index: the fold keeps the first maximum, starting from (0, 0)
RECURSIVE FoldBest(_, _, _, _)
FoldBest(lasers, ci, best_i, best_v) ==
    IF ci >= NUM_LASER_POSITIONS THEN best_i
    ELSE IF LaserValue(lasers[ci]) > best_v
         THEN FoldBest(lasers, ci + 1, ci, LaserValue(lasers[ci]))
         ELSE FoldBest(lasers, ci + 1, best_i, best_v)

FindBestIndex(lasers) == FoldBest(lasers, 0, 0, 0)

RECURSIVE GrowLeft(_, _)
GrowLeft(lasers, left_index) ==
    IF left_index > 0 /\ IsOk(lasers[left_index - 1].status)
    THEN GrowLeft(lasers, left_index - 1)
    ELSE left_index

RECURSIVE GrowRight(_, _)
GrowRight(lasers, right_index) ==
    IF right_index < NUM_LASER_POSITIONS - 1 /\ IsOk(lasers[right_index + 1].status)
    THEN GrowRight(lasers, right_index + 1)
    ELSE right_index

\* Mutant of find_open_window: the window is always the whole array.
FindOpenWindowWhole(lasers, best_index) == <<0, NUM_LASER_POSITIONS - 1>>

\* Vision::find_open_window
FindOpenWindow(lasers, best_index) ==
    <<GrowLeft(lasers, best_index), GrowRight(lasers, best_index)>>

\* Vision::sensor_angle
SensorAngle(index) ==
    CASE index = LILL -> SLL
      [] index = LIL -> SL
      [] index = LIC -> SC
      [] index = LIR -> SR
      [] index = LIRR -> SRR

\* Vision::compute_target_simple
ComputeTargetSimple(lasers) ==
    LET target == Interpolate([ k \in 1..5 |-> LaserValue(lasers[k - 1]) ], SLL, SRR)
        index == IF target < AngleSub(SL, SHALF) THEN LILL
                 ELSE IF target < SHALF THEN LIL
                 ELSE IF target > AngleAdd(SR, SHALF) THEN LIRR
                 ELSE IF target > SHALF THEN LIL
                 ELSE LIC
    IN  [ target |-> target, index |-> index, status |-> lasers[index].status,
          window |-> None ]

\* Mutant of find_best_extreme: the side is always the one the interpolation
\* over the five values leans toward.
FindBestExtremeInterpolated(lasers, best_index) ==
    IF ComputeTargetSimple(lasers).target < ZERO THEN SLL ELSE SRR

\* Vision::find_best_extreme
FindBestExtreme(lasers, best_index) ==
    IF best_index < LIC THEN SLL
    ELSE IF best_index > LIC THEN SRR
    ELSE IF ComputeTargetSimple(lasers).target < ZERO THEN SLL ELSE SRR

\* Vision::compute_target_with_windows
ComputeTargetWithWindows(lasers) ==
    LET best_index == FindBestIndex(lasers)
        best_status == lasers[best_index].status
        w == FindOpenWindow(lasers, best_index)
        window_left == w[1]
        window_right == w[2]
        len == window_right - window_left + 1
        weights == [ k \in 1..len |-> LaserValue(lasers[window_left + k - 1]) ]
        target == IF len = 1 THEN SensorAngle(best_index)
                  ELSE Interpolate(weights, SensorAngle(window_left),
                                   SensorAngle(window_right))
    IN  IF IsOk(best_status)
        THEN [ target |-> target, index |-> best_index, status |-> best_status,
               window |-> Some(w) ]
        ELSE [ target |-> FindBestExtreme(lasers, best_index), index |-> best_index,
               status |-> best_status, window |-> None ]

\* Vision::compute_target
ComputeTarget(lasers) == ComputeTargetWithWindows(lasers)

\* Mutant of detect_back_panic: a value equal to the back distance panics too.
DetectBackPanicInclusive(lasers, cfg) ==
    \/ LaserValue(lasers[LILL]) <= AsU16(cfg.back_distance_side_60)
    \/ LaserValue(lasers[LIRR]) <= AsU16(cfg.back_distance_side_60)
    \/ LaserValue(lasers[LIL]) <= AsU16(cfg.back_distance_side_30)
    \/ LaserValue(lasers[LIR]) <= AsU16(cfg.back_distance_side_30)
    \/ LaserValue(lasers[LIC]) <= AsU16(cfg.back_distance_center)

\* Vision::detect_back_panic
DetectBackPanic(lasers, cfg) ==
    \/ LaserValue(lasers[LILL]) < AsU16(cfg.back_distance_side_60)
    \/ LaserValue(lasers[LIRR]) < AsU16(cfg.back_distance_side_60)
    \/ LaserValue(lasers[LIL]) < AsU16(cfg.back_distance_side_30)
    \/ LaserValue(lasers[LIR]) < AsU16(cfg.back_distance_side_30)
    \/ LaserValue(lasers[LIC]) < AsU16(cfg.back_distance_center)

\* ------------------------------------------------------------------------
\* Race control loop (race.rs): one loop iteration as pure operators
\* ------------------------------------------------------------------------

\* Duration::from_micros(100), the floor of dt
DT_FLOOR == 100

\* Mutant of detect_tilt_alert: the roll to the left is not tested.
DetectTiltAlertNoLeftRoll(pitch, roll) ==
    \/ pitch < AngleNeg(TILT_ALERT)
    \/ pitch > TILT_ALERT
    \/ roll > TILT_ALERT

\* detect_tilt_alert
DetectTiltAlert(pitch, roll) ==
    \/ pitch < AngleNeg(TILT_ALERT)
    \/ pitch > TILT_ALERT
    \/ roll < AngleNeg(TILT_ALERT)
    \/ roll > TILT_ALERT

\* RouteTarget::new_for_stillness
NewForStillness(cfg, current_heading, target_delta) ==
    [ remaining_time |-> FromMillis(cfg.inversion_time), go_back |-> TRUE,
      was_still |-> TRUE, start |-> current_heading,
      target |-> AngleAdd(current_heading, target_delta) ]

\* RouteTarget::new_for_climbing
NewForClimbing(cfg, current_heading) ==
    [ remaining_time |-> FromMillis(cfg.inversion_time), go_back |-> TRUE,
      was_still |-> FALSE, start |-> current_heading,
      target |-> ClimbDirection(cfg) ]

\* Mutant of the dt computation: the floor is missing.
TickDtNoFloor(elapsed) == elapsed

\* dt = (now - last_timestamp).max(Duration::from_micros(100))
TickDt(elapsed) == Max2(elapsed, DT_FLOOR)

\* race.rs 309-317: the condition under which a back panic is (re)triggered
IsInBackPanic(route_target, lasers, cfg) ==
    route_target = None /\ DetectBackPanic(lasers, cfg)

\* race.rs 309-317: remaining_back_panic after the trigger
BackPanicTrigger(remaining_back_panic, is_in_back_panic, cfg, steer) ==
    IF is_in_back_panic
    THEN Some([ remaining_time |-> FromMillis(cfg.back_time), steer |-> steer ])
    ELSE remaining_back_panic

\* Mutant of the stillness trigger: a simulation is not told apart.
StillnessTriggerSimulated(route_target, remaining_sprint, simulate, stillness, cfg, absolute_heading, steer) ==
    IF /\ route_target = None
       /\ remaining_sprint = None
       /\ stillness # None
       /\ AsI16(AsMillis(stillness[1])) >= cfg.stillness_time
    THEN Some(NewForStillness(cfg, absolute_heading,
                              IF steer < ZERO THEN L45 ELSE R45))
    ELSE route_target

\* race.rs 319-335: route_target after the stillness trigger
StillnessTrigger(route_target, remaining_sprint, simulate, stillness, cfg, absolute_heading, steer) ==
    IF /\ route_target = None
       /\ remaining_sprint = None
       /\ ~simulate
       /\ stillness # None
       /\ AsI16(AsMillis(stillness[1])) >= cfg.stillness_time
    THEN Some(NewForStillness(cfg, absolute_heading,
                              IF steer < ZERO THEN L45 ELSE R45))
    ELSE route_target

\* race.rs 337-344: route_target after the climb-direction trigger
ClimbTrigger(route_target, cfg, current_pitch, track_heading, absolute_heading) ==
    IF /\ UseClimbDirection(cfg)
       /\ DetectClimb(cfg, current_pitch)
       /\ AngleAbs(AngleSub(track_heading, ClimbDirection(cfg))) > R100
    THEN Some(NewForClimbing(cfg, absolute_heading))
    ELSE route_target

\* race.rs 354-358: the tilt alert arm
TiltArm(remaining_sprint, remaining_back_panic, route_target) ==
    [ power |-> 0, steer |-> ZERO, remaining_sprint |-> remaining_sprint,
      remaining_back_panic |-> remaining_back_panic, route_target |-> route_target,
      branch |-> "tilt", fault |-> FALSE ]

\* race.rs 365-372: the countdown of the back panic
BackPanicCountdown(back_steering, dt) ==
    IF back_steering.remaining_time > dt
    THEN Some([back_steering EXCEPT !.remaining_time = back_steering.remaining_time - dt])
    ELSE None

\* Mutant of the back panic steer: the stored steer is used in every iteration.
BackPanicSteerFrozen(back_steering, is_in_back_panic) ==
    AngleNeg(back_steering.steer)

\* race.rs 376-380: the steer of the back panic arm
BackPanicSteer(back_steering, is_in_back_panic) ==
    IF is_in_back_panic THEN AngleNeg(back_steering.steer) ELSE ZERO

\* race.rs 359-381: the back panic arm
BackPanicArm(cfg, back_steering, is_in_back_panic, route_target, dt) ==
    [ power |-> AsI16(-cfg.back_speed),
      steer |-> BackPanicSteer(back_steering, is_in_back_panic),
      remaining_sprint |-> None,
      remaining_back_panic |-> BackPanicCountdown(back_steering, dt),
      route_target |-> route_target, branch |-> "back", fault |-> FALSE ]

\* Mutant of the route target test: the absolute value is missing.
RouteTargetReachedNoAbs(delta) == delta < 10

\* race.rs 394: the route target is reached
RouteTargetReached(delta) == Abs(delta) < 10

\* race.rs 400-411: the countdown and phase inversion of the route target
RouteTargetCountdown(cfg, target, dt) ==
    IF target.remaining_time > dt
    THEN [target EXCEPT !.remaining_time = target.remaining_time - dt]
    ELSE [target EXCEPT !.remaining_time = FromMillis(cfg.inversion_time),
                        !.go_back = ~target.go_back]

\* race.rs 414-418: the action of a route target that is not reached
RouteTargetAction(cfg, new_target, steer) ==
    IF new_target.go_back
    THEN [ power |-> cfg.back_speed, steer |-> AngleNeg(steer) ]
    ELSE [ power |-> cfg.max_speed, steer |-> steer ]

\* race.rs 382-419: the route target arm
RouteTargetArm(cfg, target, remaining_back_panic, absolute_heading, dt) ==
    LET delta == AngleSub(target.target, absolute_heading)
        steer == ClampSteer(delta)
        new_target == RouteTargetCountdown(cfg, target, dt)
        act == RouteTargetAction(cfg, new_target, steer)
    IN  IF RouteTargetReached(delta)
        THEN [ power |-> 0, steer |-> ZERO, remaining_sprint |-> None,
               remaining_back_panic |-> remaining_back_panic, route_target |-> None,
               branch |-> "route_reached", fault |-> FALSE ]
        ELSE [ power |-> act.power, steer |-> act.steer, remaining_sprint |-> None,
               remaining_back_panic |-> remaining_back_panic,
               route_target |-> Some(new_target),
               branch |-> "route", fault |-> FALSE ]

\* Mutant of the sprint arm: the burst is straight.
SprintArmStraight(cfg, sprint, remaining_back_panic, route_target, steer, dt) ==
    [ power |-> cfg.sprint_speed, steer |-> ZERO,
      remaining_sprint |-> IF sprint > dt THEN Some(sprint - dt) ELSE None,
      remaining_back_panic |-> remaining_back_panic, route_target |-> route_target,
      branch |-> "sprint", fault |-> FALSE ]

\* race.rs 420-425: the sprint arm
SprintArm(cfg, sprint, remaining_back_panic, route_target, steer, dt) ==
    [ power |-> cfg.sprint_speed, steer |-> steer,
      remaining_sprint |-> IF sprint > dt THEN Some(sprint - dt) ELSE None,
      remaining_back_panic |-> remaining_back_panic, route_target |-> route_target,
      branch |-> "sprint", fault |-> FALSE ]

\* race.rs 431: a division by zero panics
NormalArmFaults(cfg, current_pitch) ==
    \/ TurnSpeedDivisor(cfg) = 0
    \/ current_pitch > ZERO /\ ClimbBoostDivisor(cfg) = 0

\* race.rs 426-434: the normal arm
NormalArm(cfg, remaining_back_panic, route_target, steer, current_pitch) ==
    IF NormalArmFaults(cfg, current_pitch)
    THEN [ power |-> 0, steer |-> steer, remaining_sprint |-> None,
           remaining_back_panic |-> remaining_back_panic,
           route_target |-> route_target, branch |-> "normal", fault |-> TRUE ]
    ELSE [ power |-> AsI16(TurnSpeed(cfg, steer) + ClimbPowerBoost(cfg, current_pitch)),
           steer |-> steer, remaining_sprint |-> None,
           remaining_back_panic |-> remaining_back_panic,
           route_target |-> route_target, branch |-> "normal", fault |-> FALSE ]

\* Mutant of the priority chain: the route target is tested before the back panic.
PriorityChainRouteFirst(cfg, tilt, remaining_sprint, remaining_back_panic, route_target, is_in_back_panic, steer, absolute_heading, current_pitch, dt) ==
    IF tilt
    THEN TiltArm(remaining_sprint, remaining_back_panic, route_target)
    ELSE IF route_target # None
    THEN RouteTargetArm(cfg, route_target[1], remaining_back_panic, absolute_heading, dt)
    ELSE IF remaining_back_panic # None
    THEN BackPanicArm(cfg, remaining_back_panic[1], is_in_back_panic, route_target, dt)
    ELSE IF remaining_sprint # None
    THEN SprintArm(cfg, remaining_sprint[1], remaining_back_panic, route_target, steer, dt)
    ELSE NormalArm(cfg, remaining_back_panic, route_target, steer, current_pitch)

\* race.rs 354-434: the priority chain
PriorityChain(cfg, tilt, remaining_sprint, remaining_back_panic, route_target, is_in_back_panic, steer, absolute_heading, current_pitch, dt) ==
    IF tilt
    THEN TiltArm(remaining_sprint, remaining_back_panic, route_target)
    ELSE IF remaining_back_panic # None
    THEN BackPanicArm(cfg, remaining_back_panic[1], is_in_back_panic, route_target, dt)
    ELSE IF route_target # None
    THEN RouteTargetArm(cfg, route_target[1], remaining_back_panic, absolute_heading, dt)
    ELSE IF remaining_sprint # None
    THEN SprintArm(cfg, remaining_sprint[1], remaining_back_panic, route_target, steer, dt)
    ELSE NormalArm(cfg, remaining_back_panic, route_target, steer, current_pitch)

\* race.rs 302-436: one loop iteration from the loop state ls, up to the action
Tick(cfg, sim, ls, elapsed) ==
    LET d == TickDt(elapsed)
        t == ComputeTarget(ls.cv)
        steer == ClampSteer(t.target)
        panic == IsInBackPanic(ls.route_target, ls.cv, cfg)
        rbp == BackPanicTrigger(ls.remaining_back_panic, panic, cfg, steer)
        rt1 == StillnessTrigger(ls.route_target, ls.remaining_sprint, sim,
                                ls.current_imu_data.stillness, cfg,
                                ls.absolute_heading, steer)
        rt2 == ClimbTrigger(rt1, cfg, ls.current_pitch, ls.track_heading,
                            ls.absolute_heading)
        arm == PriorityChain(cfg, ls.tilt_alert, ls.remaining_sprint, rbp, rt2, panic,
                             steer, ls.absolute_heading, ls.current_pitch, d)
    IN  [ dt |-> d, is_in_back_panic |-> panic, arm |-> arm ]

\* TraceEvent::new (trace.rs); forward, side and vertical are not modelled
TraceEventNew(absolute_heading, track_heading, imu_data, has_back_panic, remaining_back_panic, target, steer, speed, d) ==
    [ absolute_heading |-> absolute_heading, track_heading |-> track_heading,
      steer |-> steer, speed |-> speed,
      roll |-> FromImuValue(imu_data.roll), pitch |-> FromImuValue(imu_data.pitch),
      yaw |-> FromImuValue(imu_data.yaw),
      has_back_panic |-> has_back_panic,
      remaining_back_panic_ms |->
          IF remaining_back_panic # None
          THEN AsMillis(remaining_back_panic[1].remaining_time) ELSE 0,
      has_target |-> target # None,
      remaining_target_ms |->
          IF target # None THEN AsMillis(target[1].remaining_time) ELSE 0,
      target |-> IF target # None THEN target[1].target ELSE ZERO,
      target_back |-> IF target # None THEN target[1].go_back ELSE FALSE,
      stillness_ms |->
          IF imu_data.stillness # None THEN AsMillis(imu_data.stillness[1]) ELSE 0,
      dt_us |-> d ]

\* EMPTY_EVENT
EMPTY_EVENT ==
    TraceEventNew(ZERO, ZERO, [ yaw |-> 0, pitch |-> 0, roll |-> 0, stillness |-> None ],
                  FALSE, None, None, ZERO, 0, 0)

\* The slots of the ring
Slots == 0..(TRACE_EVENTS - 1)

\* The TraceData trace_task creates
TraceDataNew ==
    [ start |-> 0, end |-> 0, events |-> [ i \in Slots |-> EMPTY_EVENT ] ]

\* TraceData::clear
TraceDataClear(d) == [ d EXCEPT !.start = 0, !.end = 0 ]

\* Mutant of TraceData::push: a full ring drops the new event.
TraceDataPushKeepOldest(d, event) ==
    LET new_end == (d.end + 1) % TRACE_EVENTS
    IN  IF d.start = new_end THEN d
        ELSE [ start |-> d.start, end |-> new_end,
               events |-> [ d.events EXCEPT ![d.end] = event ] ]

\* TraceData::push
TraceDataPush(d, event) ==
    LET new_end == (d.end + 1) % TRACE_EVENTS
    IN  [ start |-> IF d.start = new_end THEN (d.start + 1) % TRACE_EVENTS
                    ELSE d.start,
          end |-> new_end,
          events |-> [ d.events EXCEPT ![d.end] = event ] ]

\* ------------------------------------------------------------------------
\* Inputs: laser batches, IMU samples, elapsed times, commands
\* ------------------------------------------------------------------------

\* lasers.rs SHIFT.divisor() for Gp2Y0E02bShift::Cm128
SHIFT_DIVISOR == 5

\* What one I2C read of a distance sensor gives: ok with the 12 bits of the two
\* result bytes, or an error or a timeout.
ReadOk(raw_distance) == [ ok |-> TRUE, raw_distance |-> raw_distance ]

ReadFailed == [ ok |-> FALSE, raw_distance |-> 0 ]

\* read_distance
ReadDistance(result) ==
    IF result.ok
    THEN TruncDiv(AsU16(result.raw_distance * 10), 2 ^ SHIFT_DIVISOR)
    ELSE 0

\* lasers_task: the batch signalled after the 8 channels were read
LasersTaskBatch(results) ==
    [ ch \in 0..(RAW_LASERS_COUNT - 1) |-> ReadDistance(results[ch]) ]

\* The 8 physical channels that give the 5 logical positions the values
\* ll, l, c, r, rr on both their lower and their upper sensor.
Scene(ll, l, c, r, rr) ==
    [ ch \in 0..(RAW_LASERS_COUNT - 1) |->
        CASE ch = 4 -> ll
          [] ch \in {6, 1} -> l
          [] ch \in {7, 2} -> c
          [] ch \in {0, 3} -> r
          [] ch = 5 -> rr ]

SceneClear == Scene(1200, 1200, 1200, 1200, 1200)
SceneCenterBlocked == Scene(1200, 1200, 49, 1200, 1200)
SceneRightPanic == Scene(1200, 1200, 1200, 1200, 40)
SceneLeftBlocked == Scene(100, 100, 300, 1200, 1200)
SceneAllZero == Scene(0, 0, 0, 0, 0)

Scenes == { SceneClear, SceneCenterBlocked, SceneRightPanic, SceneLeftBlocked,
            SceneAllZero }

TunedScenes == { SceneClear, SceneLeftBlocked }

\* yaw, pitch and roll in hundredths of a degree, stillness in microseconds
Sample(yaw, pitch, roll, stillness) ==
    [ yaw |-> yaw, pitch |-> pitch, roll |-> roll, stillness |-> stillness ]

SampleLevel == Sample(0, 0, 0, None)
SampleTurned == Sample(4000, 0, 0, None)
SampleStill == Sample(0, 0, 0, Some(600000))
SampleClimb == Sample(0, 1600, 0, None)
SampleClimbAway == Sample(12000, 1200, 0, None)
SampleTiltPitch == Sample(0, 4600, 0, None)
SampleTiltEdge == Sample(0, 4550, 0, None)
SampleTiltRoll == Sample(0, 0, -4600, None)

Samples == { SampleLevel, SampleTurned, SampleStill, SampleClimb, SampleClimbAway,
             SampleTiltPitch, SampleTiltEdge, SampleTiltRoll }

TunedSamples == { SampleLevel, SampleClimb }

\* now - last_timestamp, in microseconds
Elapsed == { 0, 40000, 400000 }

TunedElapsed == { 400000 }

StartAngles == { 0, 120 }

Cmds == { "Ok", "Exit", "Previous", "Next", "Plus", "Minus" }

\* ------------------------------------------------------------------------
\* State
\* ------------------------------------------------------------------------

VARIABLES
    config,                 \* the RaceConfig of screens::run
    pc,                     \* "idle", "race", "returned" or "panicked"
    simulate,               \* race(): parameter
    start_angle,            \* race(): parameter
    remaining_sprint,       \* race(): Option<Duration>
    remaining_back_panic,   \* race(): Option<BackSteering>
    route_target,           \* race(): Option<RouteTarget>
    cv,                     \* race(): Vision
    current_imu_data,       \* race(): the last IMU sample consumed
    absolute_heading,       \* race(): Angle
    track_heading,          \* race(): Angle
    current_pitch,          \* race(): Angle
    tilt_alert,             \* race(): bool
    dt,                     \* race(): dt of the last iteration
    is_in_back_panic,       \* race(): is_in_back_panic of the last iteration
    branch,                 \* race(): the arm of the priority chain taken last
    action,                 \* race(): the RaceAction of the last iteration
    motors,                 \* the last MotorsData given to motors_go
    trace,                  \* the TRACE signal: Option<TraceCommand>
    screen,                 \* the Screen the session returned
    ticks,                  \* loop iterations of the session so far
    raw_laser_readings,     \* the last batch given to Vision::update
    RAW_LASER_READINGS,     \* lasers.rs: the Signal of the laser batches
    IMU_DATA,               \* imu.rs: the Signal of the IMU samples
    CMD,                    \* cmd.rs: the Signal of the commands
    joined,                 \* race(): what the join at its start has taken
    published,              \* number of values each producer has signalled
    consumed,               \* numbers of the values race() took from each Signal
    entry,                  \* config_screen::run: the selected entry
    editing,                \* config_screen::run: the editing flag
    manual,                 \* motors_screen::run: its power and steer
    countdown,              \* race_screen::run: its position, None outside it
    trace_data,             \* trace_task: its TraceData
    print_current,          \* TraceData::print: current while it waits, else None
    printed,                \* the events the last print has emitted, in order
    pushed,                 \* the events pushed since the ring was empty, and their ticks
    probe,                  \* the last call of a pure method: its name, arguments, result
    decoder,                \* imu_task: its Bno080Decoder
    rx                      \* the bytes imu_task has read from the UART, in order

loopVars == << remaining_sprint, remaining_back_panic, route_target, cv,
               current_imu_data, absolute_heading, track_heading, current_pitch,
               tilt_alert >>

tickVars == << dt, is_in_back_panic, branch, action, motors, trace, ticks >>

\* imu.rs 216: const HEADER_BYTE
HEADER_BYTE == 170

\* imu.rs 218-240: enum ExpectedByte, in the order of a frame
ExpectedByte == << "Header1", "Header2", "Counter", "YavLsb", "YavMsb", "PitchLsb", "PitchMsb", "RollLsb", "RollMsb", "SideLsb", "SideMsb", "ForwardLsb", "ForwardMsb", "VerticalLsb", "VerticalMsb", "Unused1", "Unused2", "Unused3", "Checksum" >>

\* imu.rs 71-80: Bno080RawRvcData::default()
Bno080RawRvcDataDefault == [ yaw |-> 0, pitch |-> 0, roll |-> 0, side |-> 0, forward |-> 0, vertical |-> 0, counter |-> 0 ]

\* imu.rs 242-253: Bno080Decoder::init()
Bno080DecoderInit == [ expected |-> "Header1", current |-> Bno080RawRvcDataDefault, checksum |-> 0, lsb |-> 0 ]

\* u8::wrapping_add
WrappingAdd(a, b) == (a + b) % 256

\* imu.rs 255-264: Bno080Decoder::handle_lsb
HandleLsb(d, received, expected) ==
    IF received = HEADER_BYTE
    THEN [ d EXCEPT !.expected = "Header2" ]
    ELSE [ d EXCEPT !.lsb = received,
                    !.checksum = WrappingAdd(d.checksum, received),
                    !.expected = expected ]

\* imu.rs 266-268: Bno080Decoder::value
DecoderValue(d, received) == AsI16(d.lsb + received * 256)

\* imu.rs 270-273: Bno080Decoder::process_msb, the decoder with the field set
ProcessMsb(d, received, field, expected) ==
    [ d EXCEPT !.checksum = WrappingAdd(d.checksum, received),
               !.current = [ d.current EXCEPT ![field] = DecoderValue(d, received) ],
               !.expected = expected ]

\* imu.rs 275-284, 362-379: Bno080Decoder::process_unused and the arm that calls it
ProcessUnused(d, received, expected) ==
    IF received # HEADER_BYTE
    THEN [ d EXCEPT !.checksum = WrappingAdd(d.checksum, received),
                    !.expected = expected ]
    ELSE [ d EXCEPT !.expected = "Header2" ]

\* imu.rs 286-393: Bno080Decoder::update, the decoder afterwards and the
\* Option it returns
DecoderUpdate(d, received) ==
    CASE d.expected = "Header1" ->
            [ decoder |-> IF received = HEADER_BYTE THEN [ d EXCEPT !.expected = "Header2" ] ELSE d,
              out |-> None ]
      [] d.expected = "Header2" ->
            [ decoder |-> [ d EXCEPT !.expected = IF received = HEADER_BYTE THEN "Counter" ELSE "Header1" ],
              out |-> None ]
      [] d.expected = "Counter" ->
            [ decoder |-> [ d EXCEPT !.checksum = received,
                                     !.current = [ d.current EXCEPT !.counter = received ],
                                     !.expected = "YavLsb" ],
              out |-> None ]
      [] d.expected = "YavLsb" -> [ decoder |-> HandleLsb(d, received, "YavMsb"), out |-> None ]
      [] d.expected = "YavMsb" -> [ decoder |-> ProcessMsb(d, received, "yaw", "PitchLsb"), out |-> None ]
      [] d.expected = "PitchLsb" -> [ decoder |-> HandleLsb(d, received, "PitchMsb"), out |-> None ]
      [] d.expected = "PitchMsb" -> [ decoder |-> ProcessMsb(d, received, "pitch", "RollLsb"), out |-> None ]
      [] d.expected = "RollLsb" -> [ decoder |-> HandleLsb(d, received, "RollMsb"), out |-> None ]
      [] d.expected = "RollMsb" -> [ decoder |-> ProcessMsb(d, received, "roll", "SideLsb"), out |-> None ]
      [] d.expected = "SideLsb" -> [ decoder |-> HandleLsb(d, received, "SideMsb"), out |-> None ]
      [] d.expected = "SideMsb" -> [ decoder |-> ProcessMsb(d, received, "side", "ForwardLsb"), out |-> None ]
      [] d.expected = "ForwardLsb" -> [ decoder |-> HandleLsb(d, received, "ForwardMsb"), out |-> None ]
      [] d.expected = "ForwardMsb" -> [ decoder |-> ProcessMsb(d, received, "forward", "VerticalLsb"), out |-> None ]
      [] d.expected = "VerticalLsb" -> [ decoder |-> HandleLsb(d, received, "VerticalMsb"), out |-> None ]
      [] d.expected = "VerticalMsb" -> [ decoder |-> ProcessMsb(d, received, "vertical", "Unused1"), out |-> None ]
      [] d.expected = "Unused1" -> [ decoder |-> ProcessUnused(d, received, "Unused2"), out |-> None ]
      [] d.expected = "Unused2" -> [ decoder |-> ProcessUnused(d, received, "Unused3"), out |-> None ]
      [] d.expected = "Unused3" -> [ decoder |-> ProcessUnused(d, received, "Checksum"), out |-> None ]
      [] d.expected = "Checksum" ->
            [ decoder |-> [ d EXCEPT !.expected = "Header1" ], out |-> Some(d.current) ]

vars == << config, pc, simulate, start_angle, remaining_sprint, remaining_back_panic,
           route_target, cv, current_imu_data, absolute_heading, track_heading,
           current_pitch, tilt_alert, dt, is_in_back_panic, branch, action,
           motors, trace, screen, ticks, raw_laser_readings, RAW_LASER_READINGS,
           IMU_DATA, CMD, joined, published, consumed, entry, editing, manual,
           countdown, trace_data, print_current, printed, pushed, probe, decoder, rx >>

\* The three Signals and what race() took from them
mailVars == << RAW_LASER_READINGS, IMU_DATA, CMD, joined, published, consumed >>

\* The locals of the screens
screenVars == << entry, editing, manual, countdown >>

\* The state of trace_task
traceVars == << trace_data, print_current, printed, pushed >>

\* The vision steer of the last iteration: race.rs 306-307
VisionSteer == ClampSteer(ComputeTarget(cv).target)

Init ==
    /\ config = RaceConfigInit
    /\ pc = "idle"
    /\ simulate = FALSE
    /\ start_angle = ZERO
    /\ remaining_sprint = None
    /\ remaining_back_panic = None
    /\ route_target = None
    /\ cv = VisionNew
    /\ current_imu_data = SampleLevel
    /\ absolute_heading = ZERO
    /\ track_heading = ZERO
    /\ current_pitch = ZERO
    /\ tilt_alert = FALSE
    /\ dt = 0
    /\ is_in_back_panic = FALSE
    /\ branch = "none"
    /\ action = [ power |-> 0, steer |-> ZERO ]
    /\ motors = [ power |-> 0, steer |-> 0 ]
    /\ trace = None
    /\ screen = "Ready"
    /\ ticks = 0
    /\ raw_laser_readings = None
    /\ RAW_LASER_READINGS = None
    /\ IMU_DATA = None
    /\ CMD = None
    /\ joined = [ laser |-> None, imu |-> None ]
    /\ published = [ laser |-> 0, imu |-> 0, failed |-> {} ]
    /\ consumed = [ laser |-> << >>, imu |-> << >> ]
    /\ entry = Entries[1]
    /\ editing = FALSE
    /\ manual = [ power |-> 0, steer |-> 0 ]
    /\ countdown = None
    /\ trace_data = TraceDataNew
    /\ print_current = None
    /\ printed = << >>
    /\ pushed = << >>
    /\ probe = [ fn |-> "none", args |-> << >>, result |-> 0 ]
    /\ decoder = Bno080DecoderInit
    /\ rx = << >>

\* The loop state after an IMU sample was consumed: race.rs 296-300, 476-482
WithImu(ls, imu_data, start) ==
    [ ls EXCEPT !.absolute_heading = FromImuValue(imu_data.yaw),
                !.track_heading = AngleSub(FromImuValue(imu_data.yaw), start),
                !.current_pitch = FromImuValue(imu_data.pitch),
                !.tilt_alert = DetectTiltAlert(FromImuValue(imu_data.pitch),
                                               FromImuValue(imu_data.roll)),
                !.current_imu_data = imu_data ]

\* Mutant of the laser branch: the batch is dropped.
WithLasersIgnored(ls, raw_readings, cfg) == ls

\* The loop state after a laser batch was consumed: race.rs 295, 473-475
WithLasers(ls, raw_readings, cfg) ==
    [ ls EXCEPT !.cv = VisionUpdate(ls.cv, raw_readings, cfg) ]

LoopState ==
    [ remaining_sprint |-> remaining_sprint,
      remaining_back_panic |-> remaining_back_panic, route_target |-> route_target,
      cv |-> cv, current_imu_data |-> current_imu_data,
      absolute_heading |-> absolute_heading, track_heading |-> track_heading,
      current_pitch |-> current_pitch, tilt_alert |-> tilt_alert ]

\* race.rs 263-267: the loop state race() starts with
LoopStateNew(cfg) ==
    [ remaining_sprint |-> Some(FromMillis(cfg.sprint_time)),
      remaining_back_panic |-> None, route_target |-> None, cv |-> VisionNew,
      current_imu_data |-> SampleLevel, absolute_heading |-> ZERO,
      track_heading |-> ZERO, current_pitch |-> ZERO, tilt_alert |-> FALSE ]

\* race.rs 302-470: one loop iteration from the loop state ls, tr being the
\* TRACE signal before it; a division by zero panics before anything is emitted.
RunTick(sim, ls, elapsed, tr) ==
    \E r \in { Tick(config, sim, ls, elapsed) } :
        /\ cv' = ls.cv
        /\ current_imu_data' = ls.current_imu_data
        /\ absolute_heading' = ls.absolute_heading
        /\ track_heading' = ls.track_heading
        /\ current_pitch' = ls.current_pitch
        /\ tilt_alert' = ls.tilt_alert
        /\ remaining_sprint' = r.arm.remaining_sprint
        /\ remaining_back_panic' = r.arm.remaining_back_panic
        /\ route_target' = r.arm.route_target
        /\ dt' = r.dt
        /\ is_in_back_panic' = r.is_in_back_panic
        /\ branch' = r.arm.branch
        /\ ticks' = ticks + 1
        /\ IF r.arm.fault
           THEN /\ pc' = "panicked"
                /\ trace' = tr
                /\ UNCHANGED << action, motors >>
           ELSE /\ pc' = "race"
                /\ action' = [ power |-> r.arm.power, steer |-> r.arm.steer ]
                /\ motors' = [ power |-> IF sim THEN 0 ELSE r.arm.power,
                               steer |-> AsI16(r.arm.steer) ]
                /\ trace' = IF sim THEN tr
                            ELSE Some(<< "Push",
                                  TraceEventNew(ls.absolute_heading, ls.track_heading,
                                                ls.current_imu_data,
                                                r.is_in_back_panic,
                                                r.arm.remaining_back_panic,
                                                r.arm.route_target, r.arm.steer,
                                                r.arm.power, r.dt) >>)

\* race.rs 262-300 and the first loop iteration: the session starts once a
\* laser batch and an IMU sample have both arrived.
RaceStart(Sims, Starts, Scs, Sms, Els) ==
    /\ pc = "idle"
    /\ \E sim \in Sims, start \in Starts, raw \in Scs, imu \in Sms, el \in Els :
        /\ simulate' = sim
        /\ start_angle' = start
        /\ ticks = 0
        /\ raw_laser_readings' = Some(raw)
        /\ \E ls \in { WithImu(WithLasers(LoopStateNew(config), raw, config),
                                 imu, start) } :
              RunTick(sim, ls, el, trace)
    /\ UNCHANGED << config, screen, mailVars, screenVars, traceVars, probe, decoder, rx >>

\* race.rs 473-475 and the next loop iteration
RaceLaser(Scs, Els, bound) ==
    /\ pc = "race"
    /\ ticks < bound
    /\ \E raw \in Scs, el \in Els :
        /\ raw_laser_readings' = Some(raw)
        /\ \E ls \in { WithLasers(LoopState, raw, config) } :
              RunTick(simulate, ls, el, trace)
    /\ UNCHANGED << config, simulate, start_angle, screen, mailVars,
                    screenVars, traceVars, probe, decoder, rx >>

\* race.rs 476-482 and the next loop iteration
RaceImu(Sms, Els, bound) ==
    /\ pc = "race"
    /\ ticks < bound
    /\ \E imu \in Sms, el \in Els :
        \E ls \in { WithImu(LoopState, imu, start_angle) } :
            RunTick(simulate, ls, el, trace)
    /\ UNCHANGED << config, simulate, start_angle, screen, raw_laser_readings,
                    mailVars, screenVars, traceVars, probe, decoder, rx >>

\* race.rs 483-505: a command that ends the session
RaceCmdReturn ==
    /\ pc = "race"
    /\ \E cmd \in Cmds :
        /\ simulate => cmd \notin {"Plus", "Minus"}
        /\ screen' = IF ~simulate THEN "Ready"
                     ELSE CASE cmd = "Previous" -> "Ready"
                            [] cmd = "Next" -> "Motors"
                            [] cmd \in {"Ok", "Exit"} -> "Config"
    /\ pc' = "returned"
    /\ UNCHANGED << config, simulate, start_angle, loopVars, tickVars,
                    raw_laser_readings, mailVars, screenVars, traceVars, probe, decoder, rx >>

\* race.rs 492-497 and the next loop iteration: in a simulation Plus and Minus
\* signal the trace task and the loop goes on; the Push of a simulated
\* iteration is not signalled (race.rs 449-455).
RaceCmdTrace(Els, bound) ==
    /\ pc = "race"
    /\ simulate
    /\ ticks < bound
    /\ \E cmd \in {"Plus", "Minus"}, el \in Els :
        RunTick(simulate, LoopState, el,
                Some(<< IF cmd = "Plus" THEN "Print" ELSE "Clear" >>))
    /\ UNCHANGED << config, simulate, start_angle, screen, raw_laser_readings,
                    mailVars, screenVars, traceVars, probe, decoder, rx >>

\* config_screen.rs 38-53: one inc or dec of an entry in the Config screen
Edited(cfg) ==
    Cardinality({ e \in RealEntries : ConfigGet(cfg, e) # ConfigGet(RaceConfigInit, e) })

TuneInc ==
    /\ pc = "idle"
    /\ \E e \in RealEntries :
        /\ Edited(ConfigInc(config, e)) <= MaxEdited
        /\ config' = ConfigInc(config, e)
    /\ UNCHANGED << pc, simulate, start_angle, loopVars, tickVars, screen,
                    raw_laser_readings, mailVars, screenVars, traceVars, probe, decoder, rx >>

TuneDec ==
    /\ pc = "idle"
    /\ \E e \in RealEntries :
        /\ Edited(ConfigDec(config, e)) <= MaxEdited
        /\ config' = ConfigDec(config, e)
    /\ UNCHANGED << pc, simulate, start_angle, loopVars, tickVars, screen,
                    raw_laser_readings, mailVars, screenVars, traceVars, probe, decoder, rx >>

\* The results of the reads of one batch: lower on the lower channels of Center
\* and Side30 and on channel 4, upper on their upper channels and on channel 5.
Reads(lower, upper) ==
    [ ch \in 0..(RAW_LASERS_COUNT - 1) |->
        IF ch \in {7, 0, 6, 4} THEN lower ELSE upper ]

\* Reads that give 60, 80, 300, 380, 400, 1200 and 1279 mm, and a failed read
SensorResults ==
    { ReadFailed } \cup { ReadOk(r) : r \in {192, 256, 960, 1216, 1280, 3840, 4095} }

VisionEntries ==
    { "AlertDistanceCenter", "AlertDistanceSide30", "AlertDistanceSide60",
      "BackDistanceCenter", "BackDistanceSide30", "BackDistanceSide60",
      "SlopeDistanceDelta" }

\* config_screen.rs 38-51: inc or dec of an entry the Vision reads, before the
\* Vision is created
VisionTune ==
    /\ pc = "idle"
    /\ raw_laser_readings = None
    /\ \E e \in VisionEntries :
      \E cfg \in { ConfigInc(config, e), ConfigDec(config, e) } :
        /\ Edited(cfg) <= MaxEdited
        /\ Abs(ConfigGet(cfg, e) - ConfigGet(RaceConfigInit, e))
              <= MaxVisionSteps * EntryStep[e]
        /\ config' = cfg
    /\ UNCHANGED << pc, simulate, start_angle, loopVars, tickVars, screen,
                    raw_laser_readings, mailVars, screenVars, traceVars, probe, decoder, rx >>

\* race.rs 295, 474: cv.update(&batch, &config) with a batch of lasers_task
VisionApply ==
    /\ pc = "idle"
    /\ \E lower \in SensorResults, upper \in SensorResults :
        \E raw \in { LasersTaskBatch(Reads(lower, upper)) } :
            /\ cv' = VisionUpdate(cv, raw, config)
            /\ raw_laser_readings' = Some(raw)
    /\ UNCHANGED << config, pc, simulate, start_angle, remaining_sprint,
                    remaining_back_panic, route_target, current_imu_data,
                    absolute_heading, track_heading, current_pitch, tilt_alert,
                    tickVars, screen, mailVars, screenVars, traceVars, probe, decoder, rx >>

\* The Vision alone: the configuration is tuned, then batches are applied.
NextVision ==
    \/ VisionTune
    \/ VisionApply

SpecVision == Init /\ [][NextVision]_vars

\* Distances in mm that fall on each side of the default thresholds
SceneValues == { 0, 40, 170, 300, 400, 1200 }

\* race.rs 295: the first cv.update(&batch, &config) of a session, with a batch
\* that gives each logical position one of the distances
VisionScene ==
    /\ pc = "idle"
    /\ raw_laser_readings = None
    /\ \E ll \in SceneValues, l \in SceneValues, c \in SceneValues,
          r \in SceneValues, rr \in SceneValues :
        \E raw \in { Scene(ll, l, c, r, rr) } :
            /\ cv' = VisionUpdate(cv, raw, config)
            /\ raw_laser_readings' = Some(raw)
    /\ UNCHANGED << config, pc, simulate, start_angle, remaining_sprint,
                    remaining_back_panic, route_target, current_imu_data,
                    absolute_heading, track_heading, current_pitch, tilt_alert,
                    tickVars, screen, mailVars, screenVars, traceVars, probe, decoder, rx >>

\* The target of the Vision: the configuration is tuned, then one scene is seen.
NextTarget ==
    \/ VisionTune
    \/ VisionScene

SpecTarget == Init /\ [][NextTarget]_vars

\* ------------------------------------------------------------------------
\* The Signals between the sensor tasks, the buttons and race()
\* ------------------------------------------------------------------------

\* Mutant of Signal::signal: a full slot keeps its value.
SignalKeepOldest(slot, value) == IF slot = None THEN Some(value) ELSE slot

\* Signal::signal: the single slot is overwritten
Signal(slot, value) == Some(value)

\* Signal::wait polled on a slot: Ready with the value taken, or Pending
WaitReady(slot) == slot # None

\* Mutant of select3: every future is polled and takes its value.
Select3Drain(laser, imu, cmd) ==
    [ branch |-> IF WaitReady(laser) THEN "First"
                 ELSE IF WaitReady(imu) THEN "Second" ELSE "Third",
      laser |-> None, imu |-> None, cmd |-> None ]

\* select3(RAW_LASER_READINGS.wait(), IMU_DATA.wait(), CMD.wait()): the futures
\* are polled in order and the first that is ready takes its value; the slots
\* after the poll and the branch taken.
Select3(laser, imu, cmd) ==
    IF WaitReady(laser)
    THEN [ branch |-> "First", laser |-> None, imu |-> imu, cmd |-> cmd ]
    ELSE IF WaitReady(imu)
    THEN [ branch |-> "Second", laser |-> laser, imu |-> None, cmd |-> cmd ]
    ELSE [ branch |-> "Third", laser |-> laser, imu |-> imu, cmd |-> None ]

\* join(RAW_LASER_READINGS.wait(), IMU_DATA.wait()) polled: each future that is
\* not done yet takes its value if its slot is full.
JoinPolled(j, laser, imu) ==
    [ laser |-> IF j.laser = None THEN laser ELSE j.laser,
      imu |-> IF j.imu = None THEN imu ELSE j.imu ]

JoinDone(j) == j.laser # None /\ j.imu # None

MailReads == { Reads(lower, upper) : lower, upper \in { ReadFailed, ReadOk(3840) } }

MailSamples == { SampleLevel, SampleTurned }

MailCmds == { "Ok", "Plus" }

MailElapsed == { 400000 }

\* lasers.rs 198-207: lasers_task reads the 8 channels and signals the batch;
\* published.failed numbers the batches that hold a failed read.
LasersTaskSignal(Batches, bound) ==
    /\ published.laser < bound
    /\ \E results \in Batches :
        /\ RAW_LASER_READINGS' =
              Signal(RAW_LASER_READINGS,
                     [ values |-> LasersTaskBatch(results),
                       timestamp |-> published.laser + 1 ])
        /\ published' =
              [ published EXCEPT
                  !.laser = @ + 1,
                  !.failed = IF \E ch \in DOMAIN results : ~results[ch].ok
                             THEN @ \cup { published.laser + 1 } ELSE @ ]
    /\ UNCHANGED << config, pc, simulate, start_angle, loopVars, tickVars, screen,
                    raw_laser_readings, IMU_DATA, CMD, joined, consumed,
                    screenVars, traceVars, probe, decoder, rx >>

\* imu.rs 44-58: imu_task signals the sample it decoded
ImuTaskSignal(Sent) ==
    /\ published.imu < MaxPublished
    /\ \E sample \in Sent :
        IMU_DATA' = Signal(IMU_DATA, [ data |-> sample,
                                       timestamp |-> published.imu + 1 ])
    /\ published' = [ published EXCEPT !.imu = @ + 1 ]
    /\ UNCHANGED << config, pc, simulate, start_angle, loopVars, tickVars, screen,
                    raw_laser_readings, RAW_LASER_READINGS, CMD, joined, consumed,
                    screenVars, traceVars, probe, decoder, rx >>

\* buttons.rs 42-72: the buttons task signals a command
ButtonsSignal(Pressed) ==
    /\ \E cmd \in Pressed : CMD' = Signal(CMD, cmd)
    /\ UNCHANGED << config, pc, simulate, start_angle, loopVars, tickVars, screen,
                    raw_laser_readings, RAW_LASER_READINGS, IMU_DATA, joined,
                    published, consumed, screenVars, traceVars, probe, decoder, rx >>

\* race.rs 262-292: race() is entered and reaches its join
RaceEnter ==
    /\ pc = "idle"
    /\ pc' = "join"
    /\ \E sim \in BOOLEAN : simulate' = sim
    /\ start_angle' = ZERO
    /\ joined' = [ laser |-> None, imu |-> None ]
    /\ UNCHANGED << config, loopVars, tickVars, screen, raw_laser_readings,
                    RAW_LASER_READINGS, IMU_DATA, CMD, published, consumed,
                    screenVars, traceVars, probe, decoder, rx >>

\* The numbers of the values race() has taken, after one more poll
Consumed(c, laser_taken, imu_taken) ==
    [ laser |-> IF laser_taken # None
                THEN Append(c.laser, laser_taken[1].timestamp) ELSE c.laser,
      imu |-> IF imu_taken # None
              THEN Append(c.imu, imu_taken[1].timestamp) ELSE c.imu ]

\* race.rs 293-300 and the first loop iteration: the join is polled; once it
\* has both values the loop state is set up and the first iteration runs.
RaceJoin ==
    /\ pc = "join"
    /\ \/ joined.laser = None /\ WaitReady(RAW_LASER_READINGS)
       \/ joined.imu = None /\ WaitReady(IMU_DATA)
    /\ \E j \in { JoinPolled(joined, RAW_LASER_READINGS, IMU_DATA) } :
        /\ joined' = j
        /\ RAW_LASER_READINGS' = IF joined.laser = None THEN None
                                 ELSE RAW_LASER_READINGS
        /\ IMU_DATA' = IF joined.imu = None THEN None ELSE IMU_DATA
        /\ consumed' = Consumed(consumed,
                                IF joined.laser = None THEN RAW_LASER_READINGS
                                ELSE None,
                                IF joined.imu = None THEN IMU_DATA ELSE None)
        /\ IF JoinDone(j)
           THEN /\ raw_laser_readings' = Some(j.laser[1].values)
                /\ \E el \in MailElapsed :
                    \E ls \in { WithImu(WithLasers(LoopStateNew(config),
                                                    j.laser[1].values, config),
                                         j.imu[1].data, start_angle) } :
                        RunTick(simulate, ls, el, trace)
           ELSE UNCHANGED << pc, loopVars, tickVars, raw_laser_readings >>
    /\ UNCHANGED << config, simulate, start_angle, screen, CMD, published,
                    screenVars, traceVars, probe, decoder, rx >>

\* race.rs 472-506 and the next loop iteration: select3 takes one value.
RaceSelect ==
    /\ pc = "race"
    /\ ticks < MaxMailTicks
    /\ WaitReady(RAW_LASER_READINGS) \/ WaitReady(IMU_DATA) \/ WaitReady(CMD)
    /\ \E sel \in { Select3(RAW_LASER_READINGS, IMU_DATA, CMD) }, el \in MailElapsed :
        /\ RAW_LASER_READINGS' = sel.laser
        /\ IMU_DATA' = sel.imu
        /\ CMD' = sel.cmd
        /\ consumed' = Consumed(consumed,
                                IF sel.laser = None THEN RAW_LASER_READINGS ELSE None,
                                IF sel.imu = None THEN IMU_DATA ELSE None)
        /\ CASE sel.branch = "First" ->
                /\ raw_laser_readings' = Some(RAW_LASER_READINGS[1].values)
                /\ \E ls \in { WithLasers(LoopState, RAW_LASER_READINGS[1].values,
                                            config) } :
                      RunTick(simulate, ls, el, trace)
                /\ UNCHANGED screen
             [] sel.branch = "Second" ->
                /\ \E ls \in { WithImu(LoopState, IMU_DATA[1].data, start_angle) } :
                      RunTick(simulate, ls, el, trace)
                /\ UNCHANGED << screen, raw_laser_readings >>
             [] sel.branch = "Third" ->
                IF simulate /\ CMD[1] \in {"Plus", "Minus"}
                THEN /\ RunTick(simulate, LoopState, el,
                                Some(<< IF CMD[1] = "Plus" THEN "Print"
                                        ELSE "Clear" >>))
                     /\ UNCHANGED << screen, raw_laser_readings >>
                ELSE /\ pc' = "returned"
                     /\ screen' = IF ~simulate THEN "Ready"
                                  ELSE CASE CMD[1] = "Previous" -> "Ready"
                                         [] CMD[1] = "Next" -> "Motors"
                                         [] OTHER -> "Config"
                     /\ UNCHANGED << loopVars, tickVars, raw_laser_readings >>
    /\ UNCHANGED << config, simulate, start_angle, joined, published,
                    screenVars, traceVars, probe, decoder, rx >>

\* A race session fed by the sensor tasks and the buttons through the Signals.
NextMail ==
    \/ LasersTaskSignal(MailReads, MaxPublished)
    \/ ImuTaskSignal(MailSamples)
    \/ ButtonsSignal(MailCmds)
    \/ RaceEnter
    \/ RaceJoin
    \/ RaceSelect

SpecMail == Init /\ [][NextMail]_vars

\* ------------------------------------------------------------------------
\* The screens and their dispatcher (screens/*.rs)
\* ------------------------------------------------------------------------
\* The display (VisualState, the Vision the screens keep for it, the RGB
\* events of the Ready screen) is not part of the state.

\* for _ in 0..n { config.inc(entry) }
RECURSIVE ConfigIncTimes(_, _, _)
ConfigIncTimes(cfg, e, n) ==
    IF n = 0 THEN cfg ELSE ConfigIncTimes(ConfigInc(cfg, e), e, n - 1)

\* for _ in 0..n { config.dec(entry) }
RECURSIVE ConfigDecTimes(_, _, _)
ConfigDecTimes(cfg, e, n) ==
    IF n = 0 THEN cfg ELSE ConfigDecTimes(ConfigDec(cfg, e), e, n - 1)

\* Mutant of the command handler of the Config screen: Plus and Minus change
\* the value of the entry they start to edit.
ConfigScreenCmdEager(cfg, e, ed, c) ==
    CASE c = "Previous" ->
            IF ed THEN [ config |-> ConfigDec(cfg, e), entry |-> e, editing |-> ed,
                         returned |-> FALSE ]
            ELSE [ config |-> cfg, entry |-> EntryPrev(e), editing |-> ed,
                   returned |-> FALSE ]
      [] c = "Next" ->
            IF ed THEN [ config |-> ConfigInc(cfg, e), entry |-> e, editing |-> ed,
                         returned |-> FALSE ]
            ELSE [ config |-> cfg, entry |-> EntryNext(e), editing |-> ed,
                   returned |-> FALSE ]
      [] c = "Plus" ->
            [ config |-> ConfigIncTimes(cfg, e, 5), entry |-> e, editing |-> TRUE,
              returned |-> FALSE ]
      [] c = "Minus" ->
            [ config |-> ConfigDecTimes(cfg, e, 5), entry |-> e, editing |-> TRUE,
              returned |-> FALSE ]
      [] OTHER ->
            [ config |-> cfg, entry |-> e, editing |-> FALSE, returned |-> ~ed ]

\* config_screen.rs 35-78: the command c handled with the selected entry e and
\* the editing flag ed; returned when the screen returns Screen::Ready.
ConfigScreenCmd(cfg, e, ed, c) ==
    CASE c = "Previous" ->
            IF ed THEN [ config |-> ConfigDec(cfg, e), entry |-> e, editing |-> ed,
                         returned |-> FALSE ]
            ELSE [ config |-> cfg, entry |-> EntryPrev(e), editing |-> ed,
                   returned |-> FALSE ]
      [] c = "Next" ->
            IF ed THEN [ config |-> ConfigInc(cfg, e), entry |-> e, editing |-> ed,
                         returned |-> FALSE ]
            ELSE [ config |-> cfg, entry |-> EntryNext(e), editing |-> ed,
                   returned |-> FALSE ]
      [] c = "Plus" ->
            IF ed THEN [ config |-> ConfigIncTimes(cfg, e, 5), entry |-> e,
                         editing |-> ed, returned |-> FALSE ]
            ELSE [ config |-> cfg, entry |-> e, editing |-> TRUE,
                   returned |-> FALSE ]
      [] c = "Minus" ->
            IF ed THEN [ config |-> ConfigDecTimes(cfg, e, 5), entry |-> e,
                         editing |-> ed, returned |-> FALSE ]
            ELSE [ config |-> cfg, entry |-> e, editing |-> TRUE,
                   returned |-> FALSE ]
      [] OTHER ->
            [ config |-> cfg, entry |-> e, editing |-> FALSE, returned |-> ~ed ]

\* The values of the entry e that n editing commands of the Config screen give
RECURSIVE ValuesWithin(_, _)
ValuesWithin(e, n) ==
    IF n = 0 THEN { ConfigGet(RaceConfigInit, e) }
    ELSE LET before == { ConfigSet(RaceConfigInit, e, v) : v \in ValuesWithin(e, n - 1) }
         IN  UNION { { ConfigGet(cfg, e), ConfigGet(ConfigInc(cfg, e), e),
                       ConfigGet(ConfigDec(cfg, e), e),
                       ConfigGet(ConfigIncTimes(cfg, e, 5), e),
                       ConfigGet(ConfigDecTimes(cfg, e, 5), e) } : cfg \in before }

\* The configurations the bounds of the editing admit
WithinEditBounds(cfg) ==
    /\ Edited(cfg) <= MaxEdited
    /\ \A e \in RealEntries :
          ConfigGet(cfg, e) # ConfigGet(RaceConfigInit, e)
             => ConfigGet(cfg, e) \in ValuesWithin(e, MaxEditCommands)

\* motors_screen.rs 35-43: the power and steer the Motors screen derives from an
\* IMU sample
MotorsScreenImu(data) ==
    LET pitch == Max2(Min2(TruncDiv(data.pitch, 100), 90), -90)
    IN  [ steer |-> -Max2(Min2(TruncDiv(data.yaw, 100), 35), -35),
          power |-> AsI16(IF pitch > 10
                          THEN Min2(TruncDiv((pitch - 10) * 10000, 80), 10000)
                          ELSE IF data.pitch < -10
                          THEN Max2(TruncDiv((pitch + 10) * 10000, 80), -10000)
                          ELSE 0) ]

MotorsStop == [ power |-> 0, steer |-> 0 ]

\* The variables of race() and the counters of the producers
raceVars == << pc, simulate, start_angle, loopVars, dt, is_in_back_panic, branch, action, trace, ticks, raw_laser_readings, joined, published, consumed, traceVars, probe, decoder, rx >>

\* A screen is waiting in its select: no race session is under way
InScreen(s) == screen = s /\ pc = "idle"

\* screens/mod.rs 35-49: the dispatcher calls the screen s, which runs up to
\* its first await; the locals of a screen that is not running hold the values
\* they start with.
Enter(s) ==
    /\ screen' = s
    /\ motors' = IF s \in {"Ready", "Race", "RaceNow"} THEN MotorsStop ELSE motors
    /\ entry' = Entries[1]
    /\ editing' = FALSE
    /\ manual' = [ power |-> 0, steer |-> 0 ]
    /\ countdown' = CASE s = "Race" -> Some([ at |-> "timer", left |-> 5 ])
                      [] s = "RaceNow" -> Some([ at |-> "timer", left |-> 1 ])
                      [] OTHER -> None

\* The select of a screen takes one value from the Signals
Polled(sel) ==
    /\ WaitReady(RAW_LASER_READINGS) \/ WaitReady(IMU_DATA) \/ WaitReady(CMD)
    /\ sel = Select3(RAW_LASER_READINGS, IMU_DATA, CMD)
    /\ RAW_LASER_READINGS' = sel.laser
    /\ IMU_DATA' = sel.imu
    /\ CMD' = sel.cmd

\* ready_screen.rs 35-96: one iteration of the loop of the Ready screen
ReadyScreen ==
    /\ InScreen("Ready")
    /\ \E sel \in { Select3(RAW_LASER_READINGS, IMU_DATA, CMD) } :
        /\ Polled(sel)
        /\ IF sel.branch = "Third" /\ CMD[1] \in {"Previous", "Next", "Plus", "Minus"}
           THEN Enter(CASE CMD[1] = "Previous" -> "RaceNow"
                        [] CMD[1] = "Next" -> "Race"
                        [] CMD[1] = "Plus" -> "Simulation"
                        [] CMD[1] = "Minus" -> "Config")
           ELSE /\ motors' = MotorsStop
                /\ UNCHANGED << screen, screenVars >>
    /\ UNCHANGED << config, raceVars >>

\* motors_screen.rs 28-59: one iteration of the loop of the Motors screen
MotorsScreen ==
    /\ InScreen("Motors")
    /\ \E sel \in { Select3(RAW_LASER_READINGS, IMU_DATA, CMD) } :
        /\ Polled(sel)
        /\ IF sel.branch = "Third" /\ CMD[1] \in {"Previous", "Next"}
           THEN Enter(IF CMD[1] = "Previous" THEN "Simulation" ELSE "Imu")
           ELSE /\ manual' = IF sel.branch = "Second"
                             THEN MotorsScreenImu(IMU_DATA[1].data) ELSE manual
                /\ motors' = manual'
                /\ UNCHANGED << screen, entry, editing, countdown >>
    /\ UNCHANGED << config, raceVars >>

\* imu_screen.rs 27-52: one iteration of the loop of the Imu screen
ImuScreen ==
    /\ InScreen("Imu")
    /\ \E sel \in { Select3(RAW_LASER_READINGS, IMU_DATA, CMD) } :
        /\ Polled(sel)
        /\ IF sel.branch = "Third" /\ CMD[1] \in {"Previous", "Next"}
           THEN Enter(IF CMD[1] = "Previous" THEN "Motors" ELSE "Ready")
           ELSE /\ motors' = MotorsStop
                /\ UNCHANGED << screen, screenVars >>
    /\ UNCHANGED << config, raceVars >>

\* config_screen.rs 31-95: one iteration of the loop of the Config screen; a
\* command is handled only if it leaves the configuration within the bounds.
ConfigScreen ==
    /\ InScreen("Config")
    /\ \E sel \in { Select3(RAW_LASER_READINGS, IMU_DATA, CMD) } :
        /\ Polled(sel)
        /\ IF sel.branch = "Third"
           THEN \E r \in { ConfigScreenCmd(config, entry, editing, CMD[1]) } :
                    /\ WithinEditBounds(r.config)
                    /\ config' = r.config
                    /\ IF r.returned
                       THEN Enter("Ready")
                       ELSE /\ entry' = r.entry
                            /\ editing' = r.editing
                            /\ motors' = MotorsStop
                            /\ UNCHANGED << screen, manual, countdown >>
           ELSE /\ motors' = MotorsStop
                /\ UNCHANGED << config, screen, screenVars >>
    /\ UNCHANGED raceVars

\* race_screen.rs 49-58, 62-68, 91-97, 120-126: a timer of the Race screen
\* elapses: a step of the countdown, or the end of the sprint. select polls
\* the timer first, so an elapsed timer wins over a command that is waiting.
\* After the last step IMU_DATA.wait() does not suspend when a sample is
\* waiting, and the sprint starts at once (race_screen.rs 68, 97, 105).
RaceScreenTimer ==
    /\ screen \in {"Race", "RaceNow"}
    /\ pc = "idle"
    /\ countdown # None
    /\ countdown[1].at \in {"timer", "sprint"}
    /\ IF countdown[1].at = "sprint"
       THEN /\ Enter("Ready")
            /\ UNCHANGED IMU_DATA
       ELSE IF countdown[1].left > 1
       THEN /\ countdown' = Some([ at |-> "timer", left |-> countdown[1].left - 1 ])
            /\ UNCHANGED << screen, motors, entry, editing, manual, IMU_DATA >>
       ELSE IF WaitReady(IMU_DATA)
       THEN /\ IMU_DATA' = None
            /\ motors' = [ power |-> config.sprint_speed, steer |-> 0 ]
            /\ countdown' = Some([ at |-> "sprint", left |-> 0 ])
            /\ UNCHANGED << screen, entry, editing, manual >>
       ELSE /\ countdown' = Some([ at |-> "imu", left |-> 0 ])
            /\ UNCHANGED << screen, motors, entry, editing, manual, IMU_DATA >>
    /\ UNCHANGED << config, raceVars, RAW_LASER_READINGS, CMD >>

\* race_screen.rs 59, 69, 98, 127 and 19-27: a command during the countdown or
\* the sprint of the Race screen
RaceScreenCmd ==
    /\ screen \in {"Race", "RaceNow"}
    /\ pc = "idle"
    /\ countdown # None
    /\ countdown[1].at \in {"timer", "sprint"}
    /\ WaitReady(CMD)
    /\ CMD' = None
    /\ Enter("Ready")
    /\ UNCHANGED << config, raceVars, RAW_LASER_READINGS, IMU_DATA >>

\* race_screen.rs 68, 97 and 105: the yaw of the start is taken and the sprint
\* starts
RaceScreenImu ==
    /\ screen \in {"Race", "RaceNow"}
    /\ pc = "idle"
    /\ countdown # None
    /\ countdown[1].at = "imu"
    /\ WaitReady(IMU_DATA)
    /\ IMU_DATA' = None
    /\ motors' = [ power |-> config.sprint_speed, steer |-> 0 ]
    /\ countdown' = Some([ at |-> "sprint", left |-> 0 ])
    /\ UNCHANGED << config, raceVars, screen, entry, editing, manual,
                    RAW_LASER_READINGS, CMD >>

\* screens/mod.rs 24-28 and race.rs 262-292: the Simulation screen takes the
\* yaw of the start and race() reaches its join
SimulationScreen ==
    /\ InScreen("Simulation")
    /\ WaitReady(IMU_DATA)
    /\ IMU_DATA' = None
    /\ start_angle' = FromImuValue(IMU_DATA[1].data.yaw)
    /\ simulate' = TRUE
    /\ pc' = "join"
    /\ joined' = [ laser |-> None, imu |-> None ]
    /\ UNCHANGED << config, loopVars, tickVars, screen, raw_laser_readings,
                    RAW_LASER_READINGS, CMD, published, consumed, screenVars, traceVars, probe, decoder, rx >>

\* screens/mod.rs 34-49: race() has returned, its locals are dropped and the
\* screen it returned is called
Dispatch ==
    /\ pc = "returned"
    /\ pc' = "idle"
    /\ Enter(screen)
    /\ simulate' = FALSE
    /\ start_angle' = ZERO
    /\ remaining_sprint' = None
    /\ remaining_back_panic' = None
    /\ route_target' = None
    /\ cv' = VisionNew
    /\ current_imu_data' = SampleLevel
    /\ absolute_heading' = ZERO
    /\ track_heading' = ZERO
    /\ current_pitch' = ZERO
    /\ tilt_alert' = FALSE
    /\ dt' = 0
    /\ is_in_back_panic' = FALSE
    /\ branch' = "none"
    /\ action' = [ power |-> 0, steer |-> ZERO ]
    /\ raw_laser_readings' = None
    /\ joined' = [ laser |-> None, imu |-> None ]
    /\ ticks' = 0
    /\ consumed' = [ laser |-> << >>, imu |-> << >> ]
    /\ UNCHANGED << config, trace, RAW_LASER_READINGS, IMU_DATA, CMD, published,
                    traceVars, probe, decoder, rx >>

ScreensReads == { Reads(ReadOk(3840), ReadOk(3840)) }

ScreensSamples == { SampleClimb }

\* The dispatcher and its screens, fed by the sensor tasks and the buttons.
NextScreens ==
    \/ LasersTaskSignal(ScreensReads, MaxBatches)
    \/ ImuTaskSignal(ScreensSamples)
    \/ ButtonsSignal(Cmds)
    \/ ReadyScreen
    \/ MotorsScreen
    \/ ImuScreen
    \/ ConfigScreen
    \/ RaceScreenTimer
    \/ RaceScreenCmd
    \/ RaceScreenImu
    \/ SimulationScreen
    \/ RaceJoin
    \/ RaceSelect
    \/ Dispatch

SpecScreens == Init /\ [][NextScreens]_vars

\* ------------------------------------------------------------------------
\* The trace task and its ring of events (trace.rs)
\* ------------------------------------------------------------------------

\* The events of the ring window, from start up to but not including end
RECURSIVE WindowFrom(_, _)
WindowFrom(d, current) ==
    IF current = d.end THEN << >>
    ELSE << d.events[current] >> \o WindowFrom(d, (current + 1) % TRACE_EVENTS)

Window(d) == WindowFrom(d, d.start)

\* trace.rs 179-187 and 157-162: trace_task takes the command of TRACE; Clear
\* and Push are applied, Print emits events[start] and waits for its timer.
TraceTaskWait ==
    /\ print_current = None
    /\ WaitReady(trace)
    /\ trace' = None
    /\ CASE trace[1][1] = "Clear" ->
            /\ trace_data' = TraceDataClear(trace_data)
            /\ pushed' = << >>
            /\ UNCHANGED << print_current, printed >>
         [] trace[1][1] = "Push" ->
            /\ trace_data' = TraceDataPush(trace_data, trace[1][2])
            /\ pushed' = Append(pushed, [ event |-> trace[1][2], tick |-> ticks ])
            /\ UNCHANGED << print_current, printed >>
         [] trace[1][1] = "Print" ->
            /\ print_current' = Some(trace_data.start)
            /\ printed' = << trace_data.events[trace_data.start] >>
            /\ UNCHANGED << trace_data, pushed >>
    /\ UNCHANGED << config, pc, simulate, start_angle, loopVars, dt, is_in_back_panic,
                    branch, action, motors, ticks, screen, raw_laser_readings,
                    mailVars, screenVars, probe, decoder, rx >>

\* trace.rs 162-168: the timer of print elapses; print goes to the next slot
\* and ends when that is end, else emits its event and waits again.
TracePrintTimer ==
    /\ print_current # None
    /\ \E current \in { (print_current[1] + 1) % TRACE_EVENTS } :
        IF current = trace_data.end
        THEN /\ print_current' = None
             /\ UNCHANGED printed
        ELSE /\ print_current' = Some(current)
             /\ printed' = Append(printed, trace_data.events[current])
    /\ UNCHANGED << config, pc, simulate, start_angle, loopVars, tickVars, screen,
                    raw_laser_readings, mailVars, screenVars, trace_data, pushed, probe, decoder, rx >>

\* Events that differ in their dt_us
RingEvents == { [ EMPTY_EVENT EXCEPT !.dt_us = d ] : d \in { 40000, 400000 } }

\* race.rs 456, 493, 496: a TraceCommand is signalled, here once trace_task has
\* handled the one before
TraceSignal ==
    /\ trace = None
    /\ print_current = None
    /\ \E cmd \in { << "Clear" >>, << "Print" >> }
                  \cup { << "Push", e >> : e \in RingEvents } :
        /\ cmd[1] = "Push" => Len(pushed) < MaxPushed
        /\ trace' = Signal(trace, cmd)
    /\ UNCHANGED << config, pc, simulate, start_angle, loopVars, dt, is_in_back_panic,
                    branch, action, motors, ticks, screen, raw_laser_readings,
                    mailVars, screenVars, traceVars, probe, decoder, rx >>

\* The ring alone: each command is handled before the next one is signalled.
NextRing ==
    \/ TraceSignal
    \/ TraceTaskWait
    \/ TracePrintTimer

SpecRing == Init /\ [][NextRing]_vars

\* A race session and trace_task, interleaved.
NextTrace ==
    \/ RaceStart(BOOLEAN, {ZERO}, TunedScenes, TunedSamples, TunedElapsed)
    \/ RaceLaser(TunedScenes, TunedElapsed, MaxTicks)
    \/ RaceImu(TunedSamples, TunedElapsed, MaxTicks)
    \/ RaceCmdTrace(TunedElapsed, MaxTicks)
    \/ RaceCmdReturn
    \/ TraceTaskWait
    \/ TracePrintTimer

SpecTrace == Init /\ [][NextTrace]_vars

\* ------------------------------------------------------------------------
\* Calls of the pure methods: probe holds the last call
\* ------------------------------------------------------------------------

\* Everything but probe
programVars == << config, pc, simulate, start_angle, loopVars, tickVars, screen, raw_laser_readings, mailVars, screenVars, traceVars, decoder, rx >>

Call(fn, args, result) == [ fn |-> fn, args |-> args, result |-> result ]

AngleInputs == { 15 * k : k \in (-MaxAngleInput)..MaxAngleInput }

AngleFns == { "from", "add", "sub", "neg" }

\* race.rs 76-80: Angle::from(v)
AngleFromCall ==
    /\ \E v \in AngleInputs : probe' = Call("from", << v >>, AngleFrom(v))
    /\ UNCHANGED programVars

\* race.rs 147-153: a + b, a being the Angle of the last call
AngleAddCall ==
    /\ probe.fn \in AngleFns
    /\ \E v \in AngleInputs :
        \E b \in { AngleFrom(v) } :
            probe' = Call("add", << probe.result, b >>, AngleAdd(probe.result, b))
    /\ UNCHANGED programVars

\* race.rs 161-167: a - b, a being the Angle of the last call
AngleSubCall ==
    /\ probe.fn \in AngleFns
    /\ \E v \in AngleInputs :
        \E b \in { AngleFrom(v) } :
            probe' = Call("sub", << probe.result, b >>, AngleSub(probe.result, b))
    /\ UNCHANGED programVars

\* race.rs 175-181: -a, a being the Angle of the last call
AngleNegCall ==
    /\ probe.fn \in AngleFns
    /\ probe' = Call("neg", << probe.result >>, AngleNeg(probe.result))
    /\ UNCHANGED programVars

NextAngle ==
    \/ AngleFromCall
    \/ AngleAddCall
    \/ AngleSubCall
    \/ AngleNegCall

SpecAngle == Init /\ [][NextAngle]_vars

\* configuration.rs 58-60: RaceConfigEntry::start()
EntryStartCall ==
    /\ probe' = Call("start", << >>, Entries[1])
    /\ UNCHANGED programVars

\* configuration.rs 78-85: next() of the entry the last call gave; args are the
\* entries visited before, from start() on
EntryNextCall ==
    /\ probe.fn \in { "start", "next" }
    /\ Len(probe.args) < MaxWalk
    /\ probe' = Call("next", Append(probe.args, probe.result), EntryNext(probe.result))
    /\ UNCHANGED programVars

\* configuration.rs 69-76: prev() of the entry the last call gave
EntryPrevCall ==
    /\ probe.fn \in { "start", "prev" }
    /\ Len(probe.args) < MaxWalk
    /\ probe' = Call("prev", Append(probe.args, probe.result), EntryPrev(probe.result))
    /\ UNCHANGED programVars

NextEntries ==
    \/ EntryStartCall
    \/ EntryNextCall
    \/ EntryPrevCall

SpecEntries == Init /\ [][NextEntries]_vars

\* The values inc or dec give to the entry e of the defaults
Reached(e) ==
    { ConfigGet(ConfigIncTimes(RaceConfigInit, e, n), e) : n \in 0..MaxSessionEdits }
    \cup { ConfigGet(ConfigDecTimes(RaceConfigInit, e, n), e) : n \in 0..MaxSessionEdits }

\* The configurations inc and dec give on the entries es, the rest as in init()
RECURSIVE SessionConfigs(_)
SessionConfigs(es) ==
    IF es = << >> THEN { RaceConfigInit }
    ELSE { ConfigSet(c, Head(es), v) : c \in SessionConfigs(Tail(es)), v \in Reached(Head(es)) }

\* config_screen.rs 38-53: one stay in the Config screen, where inc and dec
\* are applied to the entries es any number of times
ConfigSession(es) ==
    /\ pc = "idle"
    /\ probe.fn = "none"
    /\ config = RaceConfigInit
    /\ config' \in SessionConfigs(es)
    /\ UNCHANGED << pc, simulate, start_angle, loopVars, tickVars, screen, raw_laser_readings, mailVars, screenVars, traceVars, probe, decoder, rx >>

\* The result of a call that stops at a division by zero
Panic == "panic"

SteerInputs == ((-MaxSteerInput)..MaxSteerInput) \cup { -180, 180 }

\* configuration.rs 351-369: config.turn_speed(steer)
TurnSpeedCall ==
    /\ probe.fn = "none"
    /\ \E steer \in SteerInputs :
        probe' = Call("turn_speed", << steer >>,
                      IF TurnSpeedDivisor(config) = 0 THEN Panic
                      ELSE TurnSpeed(config, steer))
    /\ UNCHANGED programVars

NextSpeed ==
    \/ ConfigSession(<< "MaxSpeed", "MinSpeed", "SafeAngle" >>)
    \/ TurnSpeedCall

SpecSpeed == Init /\ [][NextSpeed]_vars

PitchInputs == ((-2)..MaxPitchInput) \cup { -180, 180 }

\* configuration.rs 337-349: config.climb_power_boost(pitch)
ClimbPowerBoostCall ==
    /\ probe.fn = "none"
    /\ \E pitch \in PitchInputs :
        probe' = Call("climb_power_boost", << pitch >>,
                      IF pitch > ZERO /\ ClimbBoostDivisor(config) = 0 THEN Panic
                      ELSE ClimbPowerBoost(config, pitch))
    /\ UNCHANGED programVars

NextClimb ==
    \/ ConfigSession(<< "MaxSpeed", "ClimbingSpeed", "ClimbingAngle", "ClimbingIgnore" >>)
    \/ ClimbPowerBoostCall

SpecClimb == Init /\ [][NextClimb]_vars

\* cmd.rs 16-26: Cmd::from_serial_char
FromSerialChar(code) ==
    CASE code \in { "Z", "z" } -> Some("Ok")
      [] code \in { "X", "x", " " } -> Some("Exit")
      [] code \in { "S", "s" } -> Some("Previous")
      [] code \in { "A", "a" } -> Some("Next")
      [] code \in { "P", "p", "W", "w", "+" } -> Some("Plus")
      [] code \in { "M", "m", "Q", "q", "-" } -> Some("Minus")
      [] OTHER -> None

\* cmd.rs 28-37: Cmd::serial_char
SerialChar(c) ==
    CASE c = "Ok" -> "K"
      [] c = "Exit" -> "X"
      [] c = "Previous" -> "U"
      [] c = "Next" -> "D"
      [] c = "Plus" -> "P"
      [] c = "Minus" -> "M"

\* The printable characters a serial line can carry
SerialChars ==
    { "A", "B", "C", "D", "E", "F", "G", "H", "I", "J", "K", "L", "M", "N", "O",
      "P", "Q", "R", "S", "T", "U", "V", "W", "X", "Y", "Z",
      "a", "b", "c", "d", "e", "f", "g", "h", "i", "j", "k", "l", "m", "n", "o",
      "p", "q", "r", "s", "t", "u", "v", "w", "x", "y", "z",
      "0", "1", "2", "3", "4", "5", "6", "7", "8", "9",
      " ", "+", "-", "!", "#", "$", "%", "&", "(", ")", "*", ",", ".", "/", ":",
      ";", "<", "=", ">", "?", "@", "[", "]", "^", "_", "{", "|", "}", "~" }

\* c.serial_char()
SerialCharCall ==
    /\ \E c \in Cmds : probe' = Call("serial_char", << c >>, SerialChar(c))
    /\ UNCHANGED programVars

\* Cmd::from_serial_char(code) on a character of the line
FromSerialCharCall ==
    /\ \E code \in SerialChars :
        probe' = Call("from_serial_char", << code >>, FromSerialChar(code))
    /\ UNCHANGED programVars

\* Cmd::from_serial_char(c.serial_char()): the character the last call gave is
\* decoded; the second argument is the command it stands for
DecodeSerialCharCall ==
    /\ probe.fn = "serial_char"
    /\ probe' = Call("from_serial_char", << probe.result, probe.args[1] >>,
                     FromSerialChar(probe.result))
    /\ UNCHANGED programVars

NextCmd ==
    \/ SerialCharCall
    \/ FromSerialCharCall
    \/ DecodeSerialCharCall

SpecCmd == Init /\ [][NextCmd]_vars

\* IMU samples of a car that stands level: never still, still for less than
\* stillness_time, for just stillness_time, and for longer, up to times whose
\* milliseconds do not fit 16 bits
StillSamples ==
    { Sample(0, 0, 0, stillness) :
        stillness \in { None, Some(499999), Some(500000), Some(600000),
                        Some(32767000), Some(32768000), Some(40000000),
                        Some(66136000) } }

\* A race session on a clear track with a car that stands still, with
\* use_stillness as set in the Config screen.
NextStill ==
    \/ ConfigSession(<< "UseStillness" >>)
    \/ RaceStart(BOOLEAN, {ZERO}, {SceneClear}, StillSamples, TunedElapsed)
    \/ RaceLaser({SceneClear}, TunedElapsed, MaxTicks)
    \/ RaceImu(StillSamples, TunedElapsed, MaxTicks)
    \/ RaceCmdReturn

SpecStill == Init /\ [][NextStill]_vars

\* configuration.rs 508 and 510: the value inc computes and returns
ConfigIncValue(cfg, e) == Min2(AsI16(ConfigGet(cfg, e) + EntryStep[e]), EntryMax[e])

\* configuration.rs 514 and 516: the value dec computes and returns
ConfigDecValue(cfg, e) == Max2(AsI16(ConfigGet(cfg, e) - EntryStep[e]), EntryMin[e])

\* configuration.rs 507-511: config.inc(e); the arguments are e and get(e)
\* before the call, the result is the value returned
ConfigIncCall ==
    /\ pc = "idle"
    /\ \E e \in RealEntries :
        /\ Edited(ConfigInc(config, e)) <= MaxEdited
        /\ config' = ConfigInc(config, e)
        /\ probe' = Call("inc", << e, ConfigGet(config, e) >>, ConfigIncValue(config, e))
    /\ UNCHANGED << pc, simulate, start_angle, loopVars, tickVars, screen, raw_laser_readings, mailVars, screenVars, traceVars, decoder, rx >>

\* configuration.rs 513-517: config.dec(e)
ConfigDecCall ==
    /\ pc = "idle"
    /\ \E e \in RealEntries :
        /\ Edited(ConfigDec(config, e)) <= MaxEdited
        /\ config' = ConfigDec(config, e)
        /\ probe' = Call("dec", << e, ConfigGet(config, e) >>, ConfigDecValue(config, e))
    /\ UNCHANGED << pc, simulate, start_angle, loopVars, tickVars, screen, raw_laser_readings, mailVars, screenVars, traceVars, decoder, rx >>

NextIncDec ==
    \/ ConfigIncCall
    \/ ConfigDecCall

SpecIncDec == Init /\ [][NextIncDec]_vars

\* screens/mod.rs 13-22: enum Screen
Screens == { "Ready", "Race", "RaceNow", "Motors", "Config", "Simulation", "Imu" }

\* config_screen.rs 38-53: a stay in the Config screen in which SafeAngle is
\* raised to its max()
SafeAngleSession ==
    /\ screen = "Ready"
    /\ ConfigSession(<< "SafeAngle" >>)
    /\ config'.safe_angle = EntryMax["SafeAngle"]

\* The dispatcher and its screens as in SpecScreens, with a configuration
\* whose SafeAngle may have been raised to its max().
NextNav ==
    \/ SafeAngleSession
    \/ LasersTaskSignal(ScreensReads, MaxBatches)
    \/ ImuTaskSignal(ScreensSamples)
    \/ ButtonsSignal(Cmds)
    \/ ReadyScreen
    \/ MotorsScreen
    \/ ImuScreen
    \/ ConfigScreen
    \/ RaceScreenTimer
    \/ RaceScreenCmd
    \/ RaceScreenImu
    \/ SimulationScreen
    \/ RaceJoin
    \/ RaceSelect
    \/ Dispatch

SpecNav == Init /\ [][NextNav]_vars

\* The bytes the UART delivers: the header byte and a zero
UartBytes == { HEADER_BYTE, 0 }

\* imu.rs 36-58: imu_task reads one byte and hands it to the decoder; a sample
\* the decoder returns is copied into the ImuData and signalled
ImuTaskByte(Received) ==
    /\ Len(rx) < MaxBytes
    /\ \E received \in Received :
        LET r == DecoderUpdate(decoder, received) IN
        /\ rx' = Append(rx, received)
        /\ decoder' = r.decoder
        /\ IF r.out # None
           THEN /\ IMU_DATA' = Signal(IMU_DATA, [ data |-> Sample(r.out[1].yaw, r.out[1].pitch, r.out[1].roll, None),
                                                  timestamp |-> published.imu + 1 ])
                /\ published' = [ published EXCEPT !.imu = @ + 1 ]
           ELSE UNCHANGED << IMU_DATA, published >>
    /\ UNCHANGED << config, pc, simulate, start_angle, loopVars, tickVars, screen,
                    raw_laser_readings, RAW_LASER_READINGS, CMD, joined, consumed,
                    screenVars, traceVars, probe >>

\* imu_task decoding the byte stream of the UART
NextDecoder ==
    \/ ImuTaskByte(UartBytes)

SpecDecoder == Init /\ [][NextDecoder]_vars

\* A race session under the default configuration.
Next ==
    \/ RaceStart(BOOLEAN, StartAngles, Scenes, Samples, Elapsed)
    \/ RaceLaser(Scenes, Elapsed, MaxTicks)
    \/ RaceImu(Samples, Elapsed, MaxTicks)
    \/ RaceCmdTrace(Elapsed, MaxTicks)
    \/ RaceCmdReturn

Spec == Init /\ [][Next]_vars

\* The Config screen tunes the configuration, then a race session runs.
NextTuned ==
    \/ TuneInc
    \/ TuneDec
    \/ RaceStart(BOOLEAN, {ZERO}, TunedScenes, TunedSamples, TunedElapsed)
    \/ RaceLaser(TunedScenes, TunedElapsed, MaxTunedTicks)
    \/ RaceImu(TunedSamples, TunedElapsed, MaxTunedTicks)
    \/ RaceCmdTrace(TunedElapsed, MaxTunedTicks)
    \/ RaceCmdReturn

SpecTuned == Init /\ [][NextTuned]_vars

\* ------------------------------------------------------------------------
\* Properties
\* ------------------------------------------------------------------------

\* A loop iteration ran and emitted its action.
Emitted == pc \in {"race", "returned"}

\* This step is a loop iteration.
TickStep == ticks' = ticks + 1

Stopped == action = [ power |-> 0, steer |-> ZERO ] /\ motors = [ power |-> 0, steer |-> 0 ]

\* C1 as stated: whenever the last IMU sample consumed has a pitch or a roll
\* outside [-45, 45] degrees (samples are in hundredths of a degree), the emitted
\* action is power 0 and steer 0.
C1_TiltBeyond45Stops ==
    (Emitted /\ (\/ Abs(current_imu_data.pitch) > 4500
                 \/ Abs(current_imu_data.roll) > 4500))
        => Stopped

\* C1 amended: whenever the last IMU sample consumed has a pitch or a roll that,
\* truncated to whole degrees, is outside [-45, 45] (a magnitude of at least
\* 46.00 degrees), the emitted action is power 0 and steer 0, whatever the back
\* panic, route target and sprint sub-states are.
C1_TiltWholeDegreesStops ==
    (Emitted /\ (\/ Abs(current_imu_data.pitch) >= 4600
                 \/ Abs(current_imu_data.roll) >= 4600))
        => Stopped

\* C1 witness: a tilted sample stops the vehicle while a back panic is pending.
C1_Witness ==
    /\ pc = "race"
    /\ Abs(current_imu_data.roll) >= 4600
    /\ remaining_back_panic # None
    /\ Stopped

\* C2 as stated: in every non-simulated iteration where detect_back_panic is true
\* and the tilt alert is off, the emitted power is -back_speed.
C2_PanicAlwaysReverses ==
    (Emitted /\ ~simulate /\ DetectBackPanic(cv, config) /\ ~tilt_alert)
        => action.power = -config.back_speed

\* C2 amended: in every non-simulated iteration where detect_back_panic is true,
\* the tilt alert is off and no route target was active when the iteration began,
\* the emitted power is -back_speed, whether a sprint is in progress or a route
\* target is created in that iteration.
C2_PanicReversesUnlessRouting ==
    [][ (TickStep /\ ~simulate' /\ route_target = None
            /\ DetectBackPanic(cv', config) /\ ~tilt_alert')
        => (pc' = "race" /\ action'.power = -config.back_speed
            /\ motors'.power = -config.back_speed) ]_vars

\* C2 witness: the vehicle reverses in an iteration that also created a route
\* target.
C2_Witness ==
    /\ pc = "race"
    /\ ~simulate
    /\ DetectBackPanic(cv, config)
    /\ ~tilt_alert
    /\ route_target # None
    /\ branch = "back"
    /\ motors.power = -config.back_speed

\* C3 as stated: after any sequence of inc and dec calls from the defaults, every
\* entry is within its [min, max].
C3_EntriesWithinBounds ==
    \A e \in RealEntries :
        EntryMin[e] <= ConfigGet(config, e) /\ ConfigGet(config, e) <= EntryMax[e]

\* C4 as stated: for every configuration reachable by inc and dec, a normal
\* iteration computes its power without an arithmetic fault.
C4_NoArithmeticFault == pc # "panicked"

\* C5 as stated: for every configuration reachable by inc and dec, the power
\* emitted in any iteration lies in [-10000, 10000].
C5_PowerInRange ==
    /\ -10000 <= action.power /\ action.power <= 10000
    /\ -10000 <= motors.power /\ motors.power <= 10000

\* C6 as stated: in every iteration of a back panic episode after the one that
\* triggered it, the emitted steer is the negation of the steer stored by the
\* trigger, and the stored steer does not change.
C6_FrozenSteer ==
    [][ (TickStep /\ remaining_back_panic # None /\ branch' = "back")
        => /\ action'.steer = AngleNeg(remaining_back_panic[1].steer)
           /\ remaining_back_panic' # None =>
                remaining_back_panic'[1].steer = remaining_back_panic[1].steer ]_vars

\* C6 amended: in every iteration of a back panic episode, the emitted steer is
\* the negation of the clamped vision steer of that same iteration when the panic
\* is triggered again in it (detect_back_panic true and no route target active
\* when the iteration began), and 0 otherwise; each trigger stores the steer anew.
C6_SteerOfThisIteration ==
    [][ (TickStep /\ branch' = "back")
        => /\ action'.steer =
                IF route_target = None /\ DetectBackPanic(cv', config)
                THEN AngleNeg(ClampSteer(ComputeTarget(cv').target))
                ELSE ZERO
           /\ (route_target = None /\ DetectBackPanic(cv', config)
               /\ remaining_back_panic' # None) =>
                remaining_back_panic'[1].steer = ClampSteer(ComputeTarget(cv').target) ]_vars

\* C6 witness: an iteration of a back panic episode steers straight although a
\* steer is stored.
C6_Witness ==
    /\ pc = "race"
    /\ branch = "back"
    /\ ~DetectBackPanic(cv, config)
    /\ remaining_back_panic # None
    /\ remaining_back_panic[1].steer # ZERO
    /\ action.steer = ZERO

\* C7: in every iteration with a back panic pending, detect_back_panic false and
\* the tilt alert off, dt is at least 100 microseconds and the remaining time
\* decreases by dt, the panic being released when no more than dt remains; the
\* remaining time never exceeds back_time.
C7_BackPanicCountsDown ==
    [][ (TickStep /\ remaining_back_panic # None /\ ~tilt_alert'
            /\ ~DetectBackPanic(cv', config))
        => /\ dt' >= 100
           /\ remaining_back_panic[1].remaining_time <= config.back_time * 1000
           /\ IF remaining_back_panic[1].remaining_time > dt'
              THEN remaining_back_panic' =
                     << [ remaining_time |->
                              remaining_back_panic[1].remaining_time - dt',
                          steer |-> remaining_back_panic[1].steer ] >>
              ELSE remaining_back_panic' = << >> ]_vars

\* C7 witness: a back panic is released by its countdown in a later iteration
\* than the one that triggered it.
C7_Witness ==
    /\ pc = "race"
    /\ ticks >= 3
    /\ branch = "back"
    /\ ~DetectBackPanic(cv, config)
    /\ ~tilt_alert
    /\ remaining_back_panic = None

\* C8 as stated: while a route target is active and not reached, the emitted
\* power is negative in the go_back phase and positive in the return phase.
C8_GoBackReverses ==
    (Emitted /\ branch = "route")
        => IF route_target[1].go_back THEN action.power < 0 ELSE action.power > 0

\* C9 as stated: in every iteration that executes an active route target, its
\* remaining time decreases by dt, and when it is exhausted go_back flips and the
\* remaining time restarts at inversion_time.
C9_RouteTargetCountsDown ==
    [][ (TickStep /\ route_target # None /\ branch' = "route")
        => route_target' =
             IF route_target[1].remaining_time > dt'
             THEN << [ route_target[1] EXCEPT
                         !.remaining_time = route_target[1].remaining_time - dt' ] >>
             ELSE << [ route_target[1] EXCEPT
                         !.remaining_time = config.inversion_time * 1000,
                         !.go_back = ~route_target[1].go_back ] >> ]_vars

\* C10: an active route target is set back to None only in an iteration where
\* the normalized difference between its target and the absolute heading is
\* below 10 degrees in absolute value, and the action of that iteration is
\* power 0 and steer 0.
C10_RouteTargetClearedOnlyWhenReached ==
    [][ (route_target # None /\ route_target' = None)
        => /\ TickStep
           /\ \E tg \in { route_target[1].target, ClimbDirection(config) } :
                Abs(Normalize(tg - absolute_heading')) < 10
           /\ action' = [ power |-> 0, steer |-> ZERO ]
           /\ motors' = [ power |-> 0, steer |-> 0 ] ]_vars

\* C10 witness: a route target that was active before the iteration is cleared
\* and the vehicle stops.
C10_Witness ==
    /\ pc = "race"
    /\ branch = "route_reached"
    /\ current_pitch = ZERO
    /\ route_target = None
    /\ Stopped

\* C11 as stated: in every iteration executed in the sprint state the emitted
\* action is power = sprint_speed with steer = 0.
C11_SprintIsStraight ==
    (Emitted /\ branch = "sprint")
        => (action.power = config.sprint_speed /\ action.steer = ZERO)

\* C11 amended: in every iteration executed in the sprint state the emitted
\* action is power = sprint_speed with the clamped vision steer of that
\* iteration; the remaining sprint time, which starts at sprint_time, decreases
\* by dt in that iteration and the sprint ends in the iteration where no more
\* than dt remains.
C11_SprintFollowsVision ==
    [][ (TickStep /\ branch' = "sprint")
        => LET sprint == IF ticks = 0 THEN << config.sprint_time * 1000 >>
                         ELSE remaining_sprint
           IN  /\ action'.power = config.sprint_speed
               /\ action'.steer = ClampSteer(ComputeTarget(cv').target)
               /\ sprint # << >>
               /\ sprint[1] <= config.sprint_time * 1000
               /\ remaining_sprint' = IF sprint[1] > dt'
                                      THEN << sprint[1] - dt' >>
                                      ELSE << >> ]_vars

\* C11 witness: the sprint ends by its countdown in an iteration that steers.
C11_Witness ==
    /\ pc = "race"
    /\ ticks >= 2
    /\ branch = "sprint"
    /\ action.power = config.sprint_speed
    /\ action.steer # ZERO
    /\ remaining_sprint = None

\* The Vision was updated with a batch.
Updated == raw_laser_readings # None

\* C17 as stated: for a laser that is not a slope, value < back_distance gives
\* Back, back_distance <= value < alert_distance gives Alert, alert_distance <=
\* value < 1200 gives Regular and value >= 1200 gives Overflow.
C17_ClassificationTable ==
    Updated =>
        \A i \in LaserIndexes :
            LET l == cv[i]
                v == LaserValue(l)
                back == BackDistance(config, l.position)
                alert == AlertDistance(config, l.position)
            IN  ~l.slope =>
                    /\ v < back => l.status = "Back"
                    /\ (back <= v /\ v < alert) => l.status = "Alert"
                    /\ (alert <= v /\ v < LASER_OVERFLOW) => l.status = "Regular"
                    /\ v >= LASER_OVERFLOW => l.status = "Overflow"

\* C18: after Vision::new and after every Vision::update, a laser that is a
\* slope has the status Overflow and the value 1200, and a laser that is not has
\* the value min(lower, upper) and the status that from_value gives that value
\* under the configuration of the update.
C18_SlopeValueStatus ==
    \A i \in LaserIndexes :
        LET l == cv[i]
        IN  /\ l.slope => (l.status = "Overflow" /\ LaserValue(l) = LASER_OVERFLOW)
            /\ ~l.slope =>
                 /\ LaserValue(l) = IF l.lower <= l.upper THEN l.lower ELSE l.upper
                 /\ l.status = LaserStatusFromValue(
                                   IF l.lower <= l.upper THEN l.lower ELSE l.upper,
                                   l.position, config)

\* C18 witness: a slope forces the status Overflow on readings that are an
\* alert, next to a laser that is not a slope and is classified Back.
C18_Witness ==
    /\ Updated
    /\ \E i \in LaserIndexes :
         cv[i].slope /\ cv[i].lower < AlertDistance(config, cv[i].position)
           /\ cv[i].status = "Overflow"
    /\ \E i \in LaserIndexes : ~cv[i].slope /\ cv[i].status = "Back"

\* C19 as stated: after every Vision::update the lower and upper fields and the
\* value of every laser are at most 1200.
C19_ReadingsCapped ==
    \A i \in LaserIndexes :
        /\ cv[i].lower <= LASER_OVERFLOW
        /\ cv[i].upper <= LASER_OVERFLOW
        /\ LaserValue(cv[i]) <= LASER_OVERFLOW

\* C20 as stated: every logical position reads its lower and its upper sensor
\* on two different physical channels.
C20_TwoChannelsEach ==
    \A i \in LaserIndexes :
        PhysicalIndex(cv[i].position, cv[i].sign, FALSE)
            # PhysicalIndex(cv[i].position, cv[i].sign, TRUE)

\* C20 amended: Center and both Side30 positions read their lower and their
\* upper sensor on two different physical channels; each Side60 position reads
\* both on one channel (5 on the right, 4 on the left), so that its lower and
\* upper fields are always equal; the 5 positions use each of the 8 channels.
C20_SharedChannelOnSide60 ==
    Updated =>
        /\ \A i \in LaserIndexes :
            LET l == cv[i]
                lo == PhysicalIndex(l.position, l.sign, FALSE)
                up == PhysicalIndex(l.position, l.sign, TRUE)
            IN  /\ l.lower = raw_laser_readings[1][lo]
                /\ l.upper = raw_laser_readings[1][up]
                /\ l.position # "Side60" => lo # up
                /\ l.position = "Side60" =>
                     (lo = up /\ lo = (IF l.sign > 0 THEN 5 ELSE 4)
                        /\ l.lower = l.upper)
        /\ { PhysicalIndex(cv[i].position, cv[i].sign, u) :
                i \in LaserIndexes, u \in BOOLEAN } = 0..(RAW_LASERS_COUNT - 1)

\* C20 witness: a batch whose channels 4 and 5 differ gives the two Side60
\* positions equal lower and upper fields while the Center fields differ.
C20_Witness ==
    /\ Updated
    /\ raw_laser_readings[1][4] # raw_laser_readings[1][5]
    /\ cv[LILL].lower = cv[LILL].upper
    /\ cv[LIRR].lower = cv[LIRR].upper
    /\ cv[LILL].lower # cv[LIRR].lower
    /\ cv[LIC].lower # cv[LIC].upper

\* This step is a loop iteration of race(): what select3 returned was handled.
LoopIteration == pc = "race" /\ (ticks' = ticks + 1 \/ pc' = "returned")

\* C12: each loop iteration takes the value of exactly one of the three Signals
\* and handles it; the other two Signals keep what they hold.
C12_OneSignalPerIteration ==
    [][ LoopIteration
        => \/ /\ RAW_LASER_READINGS # None
              /\ RAW_LASER_READINGS' = None
              /\ raw_laser_readings' = << RAW_LASER_READINGS[1].values >>
              /\ UNCHANGED << IMU_DATA, CMD, current_imu_data >>
           \/ /\ IMU_DATA # None
              /\ IMU_DATA' = None
              /\ current_imu_data' = IMU_DATA[1].data
              /\ UNCHANGED << RAW_LASER_READINGS, CMD, raw_laser_readings, cv >>
           \/ /\ CMD # None
              /\ CMD' = None
              /\ UNCHANGED << RAW_LASER_READINGS, IMU_DATA, raw_laser_readings, cv,
                              current_imu_data >> ]_vars

\* C12 witness: after an iteration that took a laser batch, an IMU sample and a
\* command are still pending.
C12_Witness ==
    /\ pc = "race"
    /\ ticks >= 2
    /\ Len(consumed.laser) = 2
    /\ Len(consumed.imu) = 1
    /\ RAW_LASER_READINGS = None
    /\ IMU_DATA # None
    /\ CMD # None

\* C13: every value race() takes from the laser or the IMU Signal is the latest
\* one signalled so far, and is newer than every value taken before (none is
\* taken twice, none out of order).
C13_LatestValueInOrder ==
    [][ /\ consumed'.laser # consumed.laser
          => /\ RAW_LASER_READINGS # None
             /\ RAW_LASER_READINGS[1].timestamp = published.laser
             /\ consumed'.laser = Append(consumed.laser, published.laser)
             /\ \A k \in DOMAIN consumed.laser : consumed.laser[k] < published.laser
        /\ consumed'.imu # consumed.imu
          => /\ IMU_DATA # None
             /\ IMU_DATA[1].timestamp = published.imu
             /\ consumed'.imu = Append(consumed.imu, published.imu)
             /\ \A k \in DOMAIN consumed.imu : consumed.imu[k] < published.imu ]_vars

\* C13 witness: the first batch was overwritten before race() took the second,
\* and both samples were taken in order.
C13_Witness ==
    /\ pc = "race"
    /\ consumed.laser = << 2 >>
    /\ consumed.imu = << 1, 2 >>

\* C14 as stated: a batch that holds a failed read is never signalled, and no
\* back panic is triggered by the batch of a failed read.
C14_FailureNotPublished ==
    /\ RAW_LASER_READINGS # None
         => RAW_LASER_READINGS[1].timestamp \notin published.failed
    /\ (Emitted /\ is_in_back_panic)
         => consumed.laser[Len(consumed.laser)] \notin published.failed

\* C15: a session gives the motors no command before its join has taken one
\* laser batch and one IMU sample, and its first action is computed from a new
\* Vision updated with that batch and from the heading, pitch and tilt of that
\* sample.
C15_FirstActionAfterJoin ==
    [][ ticks = 0
        => IF ticks' = 0
           THEN UNCHANGED << action, motors >> /\ pc' \in {"idle", "join"}
           ELSE /\ JoinDone(joined')
                /\ consumed'.laser = << joined'.laser[1].timestamp >>
                /\ consumed'.imu = << joined'.imu[1].timestamp >>
                /\ cv' = VisionUpdate(VisionNew, joined'.laser[1].values, config)
                /\ absolute_heading' = FromImuValue(joined'.imu[1].data.yaw)
                /\ track_heading' = AngleSub(absolute_heading', start_angle)
                /\ current_pitch' = FromImuValue(joined'.imu[1].data.pitch)
                /\ tilt_alert' =
                     DetectTiltAlert(current_pitch',
                                     FromImuValue(joined'.imu[1].data.roll))
                /\ action'.steer = IF branch' = "back"
                                   THEN AngleNeg(ClampSteer(ComputeTarget(cv').target))
                                   ELSE ClampSteer(ComputeTarget(cv').target) ]_vars

\* C15 witness: the first action of a session, computed from a batch that is
\* not the first one signalled.
C15_Witness ==
    /\ pc = "race"
    /\ ticks = 1
    /\ JoinDone(joined)
    /\ joined.laser[1].timestamp = 2
    /\ cv # VisionNew
    /\ motors.power # 0

\* C16: a step changes the configuration only in the Config screen, while
\* editing is true, only in the value of the selected entry, and only when the
\* event the select takes is a Previous, Next, Plus or Minus command (no laser
\* batch and no IMU sample is taken); the selected entry changes only in a
\* step that starts with editing false.
C16_ConfigEditedOnlyInConfigScreen ==
    [][ /\ config' # config =>
            /\ screen = "Config"
            /\ pc = "idle"
            /\ editing
            /\ \A e \in RealEntries \ { entry } :
                  ConfigGet(config', e) = ConfigGet(config, e)
            /\ Select3(RAW_LASER_READINGS, IMU_DATA, CMD).branch = "Third"
            /\ CMD # None
            /\ CMD[1] \in {"Previous", "Next", "Plus", "Minus"}
            /\ CMD' = None
            /\ entry' = entry
        /\ entry' # entry => ~editing ]_vars

\* C16 witness: the Config screen is editing an entry other than the first one
\* and Plus has raised its value by five steps.
C16_Witness ==
    /\ screen = "Config"
    /\ editing
    /\ entry # Entries[1]
    /\ config # RaceConfigInit
    /\ config = ConfigIncTimes(RaceConfigInit, entry, 5)
    /\ ConfigGet(config, entry) = ConfigGet(RaceConfigInit, entry) + 5 * EntryStep[entry]

\* All five lasers report the value v and none is a slope.
AllReport(v) == \A i \in LaserIndexes : ~cv[i].slope /\ LaserValue(cv[i]) = v

\* C21 as stated: under the default configuration, when all five lasers report
\* the same value v with 0 <= v < 1200 and no slope, compute_target() returns
\* the target angle 0.
C21_EqualValuesTargetZero ==
    (Updated /\ config = RaceConfigInit
        /\ \E v \in 0..(LASER_OVERFLOW - 1) : AllReport(v))
        => ComputeTarget(cv).target = ZERO

\* The laser compute_target() elects: the first one with the maximum value.
BestIndex == FindBestIndex(cv)

\* The unweighted interpolation over the values of all five lasers.
Interpolated5 == Interpolate([ k \in 1..5 |-> LaserValue(cv[k - 1]) ], SLL, SRR)

\* C22 as stated: when the status of the maximum-value laser is not ok,
\* compute_target() returns no window and the target SLL if the interpolation
\* over the five values is negative and SRR otherwise, whichever index the
\* maximum-value laser has.
C22_ExtremeByInterpolation ==
    (Updated /\ ~IsOk(cv[BestIndex].status))
        => /\ ComputeTarget(cv).window = None
           /\ ComputeTarget(cv).target = IF Interpolated5 < ZERO THEN SLL ELSE SRR

\* C22 amended: when the status of the maximum-value laser is not ok,
\* compute_target() returns no window and the target SLL when that laser is
\* left of the centre, SRR when it is right of the centre, and only when it is
\* the centre laser SLL if the interpolation over the five values is negative
\* and SRR otherwise.
C22_ExtremeByBestIndexSide ==
    (Updated /\ ~IsOk(cv[BestIndex].status))
        => /\ ComputeTarget(cv).window = None
           /\ ComputeTarget(cv).index = BestIndex
           /\ ComputeTarget(cv).target =
                 IF BestIndex < LIC THEN SLL
                 ELSE IF BestIndex > LIC THEN SRR
                 ELSE IF Interpolated5 < ZERO THEN SLL ELSE SRR

\* C22 witness: the maximum-value laser is on the left and not ok, the
\* interpolation does not lean left, and the target is SLL.
C22_Witness ==
    /\ Updated
    /\ ~IsOk(cv[BestIndex].status)
    /\ BestIndex < LIC
    /\ Interpolated5 >= ZERO
    /\ ComputeTarget(cv).target = SLL
    /\ ComputeTarget(cv).window = None

\* C23: whenever compute_target() returns a window (l, r): l <= best_index <=
\* r, every laser of l..r has an ok status (Regular or Overflow), the window is
\* maximal (l = 0 or laser l-1 is not ok, r = 4 or laser r+1 is not ok), and
\* the target lies between sensor_angle(l) and sensor_angle(r) inclusive.
C23_WindowAroundBest ==
    (Updated /\ ComputeTarget(cv).window # None) =>
        LET res == ComputeTarget(cv)
            l == res.window[1][1]
            r == res.window[1][2]
        IN  /\ l \in LaserIndexes
            /\ r \in LaserIndexes
            /\ l <= BestIndex
            /\ BestIndex <= r
            /\ res.index = BestIndex
            /\ \A i \in l..r : cv[i].status \in {"Regular", "Overflow"}
            /\ l = 0 \/ cv[l - 1].status \in {"Back", "Alert"}
            /\ r = NUM_LASER_POSITIONS - 1 \/ cv[r + 1].status \in {"Back", "Alert"}
            /\ SensorAngle(l) <= res.target
            /\ res.target <= SensorAngle(r)

\* C23 witness: a window of several lasers that is closed on both sides by a
\* laser that is not ok, with a target strictly inside it that is not the
\* angle of the elected laser.
C23_Witness ==
    /\ Updated
    /\ ComputeTarget(cv).window # None
    /\ LET res == ComputeTarget(cv)
           l == res.window[1][1]
           r == res.window[1][2]
       IN  /\ 0 < l
           /\ l < r
           /\ r < NUM_LASER_POSITIONS - 1
           /\ SensorAngle(l) < res.target
           /\ res.target < SensorAngle(r)
           /\ res.target # SensorAngle(BestIndex)

\* The events pushed since the ring was empty, in push order
PushedEvents == [ i \in 1..Len(pushed) |-> pushed[i].event ]

\* The last n elements of a sequence
LastOf(seq, n) == SubSeq(seq, Len(seq) - n + 1, Len(seq))

\* C24 as stated: after k pushes into an empty TraceData of TRACE_EVENTS slots
\* the ring window holds the min(k, TRACE_EVENTS) most recently pushed events
\* in push order.
C24_WindowHoldsLastN ==
    Window(trace_data) = LastOf(PushedEvents, Min2(Len(pushed), TRACE_EVENTS))

\* C24 amended: after k pushes into an empty TraceData of TRACE_EVENTS slots
\* the ring window holds the min(k, TRACE_EVENTS - 1) most recently pushed
\* events in push order: one slot stays unused, and from the push number
\* TRACE_EVENTS on each push drops the oldest event.
C24_WindowHoldsLastNMinusOne ==
    Window(trace_data) = LastOf(PushedEvents, Min2(Len(pushed), TRACE_EVENTS - 1))

\* C24 witness: TRACE_EVENTS + 1 events were pushed, the window has wrapped
\* around and holds the last TRACE_EVENTS - 1 of them, which differ.
C24_Witness ==
    /\ Len(pushed) = TRACE_EVENTS + 1
    /\ trace_data.end < trace_data.start
    /\ Len(Window(trace_data)) = TRACE_EVENTS - 1
    /\ Window(trace_data)[1] # Window(trace_data)[2]
    /\ Window(trace_data) = LastOf(PushedEvents, TRACE_EVENTS - 1)

\* C25 as stated: a print that ends has emitted exactly the events of the ring
\* window, from start up to but not including end, in order, that is (end -
\* start) mod TRACE_EVENTS lines, and none on an empty buffer.
C25_PrintEmitsWindow ==
    [][ (print_current # None /\ print_current' = None)
        => /\ printed' = Window(trace_data)
           /\ Len(printed') = (trace_data.end - trace_data.start) % TRACE_EVENTS
           /\ trace_data.start = trace_data.end => printed' = << >> ]_vars

\* C26: under any interleaving of the race loop and trace_task, every
\* non-simulated tick's TraceEvent is appended to the ring, in tick order and
\* with none missing: the i-th event appended since the last clear is the
\* event of tick i.
C26_EveryTickPushedInOrder ==
    \A i \in 1..Len(pushed) : pushed[i].tick = i

C28_EntriesCycle ==
    /\ (probe.fn = "prev" /\ Len(probe.args) = 1)
        => /\ probe.result = Entries[Len(Entries)]
           /\ EntryIndex(probe.result) = EntryIndex("End") - 1
    /\ probe.fn = "next"
        => /\ probe.result # "End"
           /\ probe.result \in RealEntries
           /\ Len(probe.args) < Len(Entries) => probe.result # Entries[1]
           /\ Len(probe.args) = Len(Entries)
                => /\ probe.result = Entries[1]
                   /\ { probe.args[i] : i \in 1..Len(probe.args) } = RealEntries
                   /\ \A i, j \in 1..Len(probe.args) :
                        probe.args[i] = probe.args[j] => i = j

\* next() was applied |entries| times from start(), the last time to the
\* last real entry
C28_Witness ==
    /\ probe.fn = "next"
    /\ Len(probe.args) = Len(Entries)
    /\ probe.args[Len(Entries)] = "UseColorInversion"
    /\ probe.result = Entries[1]

\* C29: for every configuration with safe_angle < 35 and every steer s,
\* turn_speed(s) = turn_speed(-s), turn_speed(s) = max_speed when
\* |s| <= safe_angle, and turn_speed(s) = min_speed when |s| >= 35.
C29_TurnSpeedShape ==
    (probe.fn = "turn_speed" /\ config.safe_angle < MAX_STEER)
        => /\ probe.result = TurnSpeed(config, AngleNeg(probe.args[1]))
           /\ AngleAbs(probe.args[1]) <= config.safe_angle
                => probe.result = config.max_speed
           /\ AngleAbs(probe.args[1]) >= MAX_STEER
                => probe.result = config.min_speed

\* turn_speed was called beyond MAX_STEER with the largest safe_angle of the
\* claim and edited speeds
C29_Witness ==
    /\ probe.fn = "turn_speed"
    /\ config.safe_angle = MAX_STEER - 1
    /\ config.max_speed = 10000
    /\ config.min_speed = 1000
    /\ probe.args[1] = MAX_STEER + 1
    /\ probe.result = 1000

\* C30: for every configuration reachable from the defaults by inc and dec
\* with climbing_angle different from climbing_ignore, and every pitch,
\* climb_power_boost(pitch) is 0 when pitch <= 0, and otherwise is never
\* negative and never above climbing_speed - max_speed, is 0 for
\* pitch <= climbing_ignore and is exactly climbing_speed - max_speed for
\* pitch >= climbing_angle.
C30_ClimbBoostShape ==
    (probe.fn = "climb_power_boost" /\ config.climbing_angle # config.climbing_ignore)
        => /\ probe.args[1] <= 0 => probe.result = 0
           /\ probe.args[1] > 0
                => /\ probe.result >= 0
                   /\ probe.result <= config.climbing_speed - config.max_speed
                   /\ probe.args[1] <= config.climbing_ignore => probe.result = 0
                   /\ probe.args[1] >= config.climbing_angle
                        => probe.result = config.climbing_speed - config.max_speed

\* C31: for every command c, decoding the serial character of c gives c
\* back: from_serial_char(c.serial_char()) = Some(c).
C31_SerialCharRoundTrip ==
    (probe.fn = "from_serial_char" /\ Len(probe.args) = 2)
        => probe.result = Some(probe.args[2])

\* C32: in every race tick, whichever arm of the priority chain is taken and
\* whatever the sensors report, the steer of the RaceAction and the steer
\* given to motors_go lie within MIN_STEER..MAX_STEER, -35 to 35 degrees.
C32_SteerWithinLimits ==
    (ticks > 0 /\ pc \in { "race", "returned" })
        => /\ action.steer >= MIN_STEER
           /\ action.steer <= MAX_STEER
           /\ motors.steer = action.steer

\* A tick of the Sprint or Normal arm whose Vision target is beyond MAX_STEER
C32_Witness ==
    /\ pc = "race"
    /\ branch \in { "sprint", "normal" }
    /\ ComputeTarget(cv).target > MAX_STEER
    /\ motors.steer = MAX_STEER

\* C33: in a simulation session every motor command has power 0, whatever
\* arm is taken and whatever the inputs are, and the session never starts a
\* stillness RouteTarget.
C33_SimulationDrivesNothing ==
    (simulate /\ ticks > 0)
        => /\ motors.power = 0
           /\ route_target # None => ~route_target[1].was_still

\* A simulated tick after the sprint with a still IMU sample and an action of
\* non-zero power: the motors get power 0 and no RouteTarget is started
C33_Witness ==
    /\ simulate
    /\ pc = "race"
    /\ remaining_sprint = None
    /\ branch = "normal"
    /\ current_imu_data.stillness # None
    /\ AsMillis(current_imu_data.stillness[1]) >= config.stillness_time
    /\ route_target = None
    /\ action.power > 0
    /\ motors.power = 0

InRaceScreen == screen \in { "Race", "RaceNow" } /\ countdown # None

\* C34: in the Race screen the motors get non-zero power only after the whole
\* countdown; a command received during the countdown (one is waiting in CMD
\* while a timer of the countdown runs) leads back to Ready with the motors
\* never driven; and the motor command that follows the sprint is a stop.
C34_CountdownGuardsMotors ==
    [][ /\ (InRaceScreen /\ screen' = screen /\ motors'.power # 0)
            => countdown'[1].at = "sprint"
        /\ (InRaceScreen /\ countdown[1].at = "timer" /\ CMD # None)
            => motors'.power = 0
        /\ (InRaceScreen /\ countdown[1].at = "sprint" /\ motors' # motors)
            => motors' = MotorsStop ]_vars

StillnessTick ==
    /\ ticks' = ticks + 1
    /\ pc' = "race"
    /\ ~simulate'
    /\ pc = "race"
    /\ route_target = None
    /\ remaining_sprint = None
    /\ ~(route_target' # None /\ ~route_target'[1].was_still)

\* C36: when no RouteTarget is active, the sprint is over and the session is
\* not simulated, a tick creates a stillness RouteTarget exactly when
\* config.detect_stillness(imu.stillness) is true, for every stillness
\* duration, those above 32767 ms included.
C36_StillnessTargetIffDetected ==
    [][ StillnessTick
        => ((route_target' # None /\ route_target'[1].was_still)
                <=> DetectStillness(config, current_imu_data'.stillness)) ]_vars

\* C37: when the entry use_stillness is 0 (NO), the race loop never creates
\* a stillness RouteTarget, whatever stillness the IMU samples report.
C37_NoStillnessTargetWhenOff ==
    config.use_stillness = 0 => (route_target = None \/ ~route_target[1].was_still)

\* C38: for every entry e and every configuration reachable from the defaults
\* by inc and dec, inc(e) never lowers get(e), dec(e) never raises it, and the
\* value inc(e) or dec(e) returns is get(e) read right afterwards.
C38_IncDecMonotone ==
    /\ probe.fn = "inc"
        => /\ probe.result >= probe.args[2]
           /\ probe.result = ConfigGet(config, probe.args[1])
    /\ probe.fn = "dec"
        => /\ probe.result <= probe.args[2]
           /\ probe.result = ConfigGet(config, probe.args[1])

\* C39: the dispatcher runs exactly one screen at a time, and from every
\* screen, in any of its internal states, some finite command sequence leads
\* back to Ready. A session that has stopped at a panic takes no command any
\* more, so no state of a screen may be one.
C39_NoTrapScreen ==
    /\ screen \in Screens
    /\ pc # "panicked"

\* The last n bytes imu_task has read
LastBytes(n) == SubSeq(rx', Len(rx') - n + 1, Len(rx'))

\* imu_task signals a sample in this step
ImuTaskPublishes == rx' # rx /\ published'.imu = published.imu + 1

\* The bytes read end with two header bytes followed by 17 more bytes
EndsWithFrame ==
    /\ Len(rx') >= Len(ExpectedByte)
    /\ LastBytes(19)[1] = HEADER_BYTE
    /\ LastBytes(19)[2] = HEADER_BYTE

\* The last byte read equals the 8-bit wrapping sum of the 16 bytes before it
\* (counter, 12 payload bytes, 3 unused bytes)
ChecksumMatches == LastBytes(1)[1] = SeqSum(SubSeq(LastBytes(17), 1, 16)) % 256

\* C40: imu_task signals a sample to IMU_DATA only at the end of a complete
\* frame (two 0xAA header bytes, counter, 12 payload bytes, 3 unused bytes,
\* checksum) and only when the checksum byte received equals the 8-bit wrapping
\* sum of the counter, payload and unused bytes: a frame with a wrong checksum
\* is never published.
C40_OnlyChecksummedFramesPublished == [][ImuTaskPublishes => (EndsWithFrame /\ ChecksumMatches)]_vars

====
